---- MODULE Spec2Model ----
(***************************************************************************)
(* Model of the on-chain storage decoder of the Whot card-game interface   *)
(* (lib/cardEngineView): slot derivation, the extsload / getStorageAt read *)
(* pipeline with its fallbacks, and the bit-field decoders; and of the     *)
(* deck-map and hand decoders of lib/cards.                                *)
(*                                                                         *)
(* Representation.  A JavaScript bigint (non-negative, arbitrary           *)
(* precision) is the finite set of the positions of its 1 bits: 0n is {},  *)
(* 5n is {0, 2}.  x >> n, x & y and (1n << k) - 1n are computed on that    *)
(* set.  A Number that fits TLC's integers is an Int.  A hex string is the *)
(* sequence of its digits after "0x", most significant first, each digit a *)
(* value 0..15 (letter case, and so the EIP-55 checksum case that          *)
(* getAddress applies, is not represented).                                *)
(***************************************************************************)
EXTENDS Integers, Sequences, FiniteSets, TLC

\* ------------------------------------------------------------------------
\* Arithmetic on bigints
\* ------------------------------------------------------------------------

\* 2^n for a small n
RECURSIVE Pow2rec(_)
Pow2rec(n) == IF n = 0 THEN 1 ELSE 2 * Pow2rec(n - 1)

Pow2Table == [ n \in 0 .. 30 |-> Pow2rec(n) ]

Pow2(n) == Pow2Table[n]

\* value >> n
Shr(value, n) == { i - n : i \in { j \in value : j >= n } }

\* value << n
Shl(value, n) == { i + n : i \in value }

\* a & b
BitAnd(a, b) == a \cap b

\* (1n << k) - 1n
Mask(k) == 0 .. (k - 1)

\* Number(value), for a value below 2^31
RECURSIVE Number(_)
Number(value) ==
    IF value = {} THEN 0
    ELSE LET i == CHOOSE j \in value : TRUE
         IN  Pow2(i) + Number(value \ {i})

\* BigInt(n) for a small non-negative integer n
BigInt(n) == { i \in 0 .. 30 : (n \div Pow2(i)) % 2 = 1 }

ADDRESS_MASK == Mask(160)
U64_MASK == Mask(64)
U40_MASK == Mask(40)
U16_MASK == Mask(16)
U8_MASK == Mask(8)

\* a plausible slip: the mask applied before the shift
loadBits_maskfirst(value, offset, mask) == Shr(BitAnd(value, mask), offset)

loadBits(value, offset, mask) == BitAnd(Shr(value, offset), mask)

\* the hex digit number k (counted from the least significant) of a bigint
Nibble(value, k) ==
    (IF 4 * k \in value THEN 1 ELSE 0) + (IF 4 * k + 1 \in value THEN 2 ELSE 0)
    + (IF 4 * k + 2 \in value THEN 4 ELSE 0) + (IF 4 * k + 3 \in value THEN 8 ELSE 0)

\* the number of digits of value.toString(16).padStart(40, "0"): 40, or more
\* when the value has a bit at position 160 or above
paddedLength(value) ==
    LET high == { j \in value : j >= 160 }
    IN  IF high = {} THEN 40
        ELSE (CHOOSE m \in high : \A j \in high : j <= m) \div 4 + 1

\* getAddress accepts "0x" followed by exactly 40 hex digits and raises
\* InvalidAddressError for any other string
isAddress(digits) == Len(digits) = 40

\* the digits of value.toString(16).padStart(40, "0"), most significant first,
\* which toAddress hands to getAddress; getAddress returns them (in checksum
\* case) when isAddress holds and raises otherwise
toAddress(value) ==
    LET n == paddedLength(value)
    IN  [ j \in 1 .. n |-> Nibble(value, n - j) ]

\* viem's hexToBigInt on the digits of a hex string (never applied to "0x",
\* which hexToBigIntSafe answers itself)
hexToBigInt(digits) ==
    UNION { { 4 * (Len(digits) - j) + b :
                b \in { c \in 0 .. 3 : (digits[j] \div Pow2(c)) % 2 = 1 } } :
            j \in 1 .. Len(digits) }

\* ------------------------------------------------------------------------
\* The decoders
\* ------------------------------------------------------------------------

\* the while loop of countPlayersFromStore
RECURSIVE countLoop(_, _)
countLoop(raw, count) ==
    IF raw = {} THEN count
    ELSE countLoop(Shr(raw, 1), count + Number(BitAnd(raw, BigInt(1))))

\* a plausible slip: the sentinel bit 0 is counted as a seat
countPlayersFromStore_sentinel(playerStoreMap) == countLoop(playerStoreMap, 0)

countPlayersFromStore(playerStoreMap) == countLoop(Shr(playerStoreMap, 1), 0)

\* a plausible slip: maxPlayers taken from the proposed player count
decodeGameData_proposed(raw0, raw1) ==
    LET playerStoreMap == loadBits(raw0, 240, U16_MASK)
        playersLeftToJoin == Number(loadBits(raw1, 232, U8_MASK))
        playersJoined == countPlayersFromStore(playerStoreMap)
    IN  [ gameCreator |-> toAddress(loadBits(raw0, 0, ADDRESS_MASK)),
          callCard |-> Number(loadBits(raw0, 160, U8_MASK)),
          playerTurnIdx |-> Number(loadBits(raw0, 168, U8_MASK)),
          status |-> Number(loadBits(raw0, 176, U8_MASK)),
          lastMoveTimestamp |-> loadBits(raw0, 184, U40_MASK),
          numProposedPlayers |-> Number(loadBits(raw0, 224, U8_MASK)),
          hookPermissions |-> Number(loadBits(raw0, 232, U8_MASK)),
          playerStoreMap |-> playerStoreMap,
          playersJoined |-> playersJoined,
          playersLeftToJoin |-> playersLeftToJoin,
          maxPlayers |-> Number(loadBits(raw0, 224, U8_MASK)),
          ruleset |-> toAddress(loadBits(raw1, 0, ADDRESS_MASK)),
          marketDeckMap |-> loadBits(raw1, 160, U64_MASK),
          initialHandSize |-> Number(loadBits(raw1, 224, U8_MASK)) ]

\* a plausible slip: an empty seat map reported as one player (the sentinel)
decodeGameData_minone(raw0, raw1) ==
    LET playerStoreMap == loadBits(raw0, 240, U16_MASK)
        playersLeftToJoin == Number(loadBits(raw1, 232, U8_MASK))
        counted == countPlayersFromStore(playerStoreMap)
        playersJoined == IF counted = 0 THEN 1 ELSE counted
    IN  [ gameCreator |-> toAddress(loadBits(raw0, 0, ADDRESS_MASK)),
          callCard |-> Number(loadBits(raw0, 160, U8_MASK)),
          playerTurnIdx |-> Number(loadBits(raw0, 168, U8_MASK)),
          status |-> Number(loadBits(raw0, 176, U8_MASK)),
          lastMoveTimestamp |-> loadBits(raw0, 184, U40_MASK),
          numProposedPlayers |-> Number(loadBits(raw0, 224, U8_MASK)),
          hookPermissions |-> Number(loadBits(raw0, 232, U8_MASK)),
          playerStoreMap |-> playerStoreMap,
          playersJoined |-> playersJoined,
          playersLeftToJoin |-> playersLeftToJoin,
          maxPlayers |-> playersJoined + playersLeftToJoin,
          ruleset |-> toAddress(loadBits(raw1, 0, ADDRESS_MASK)),
          marketDeckMap |-> loadBits(raw1, 160, U64_MASK),
          initialHandSize |-> Number(loadBits(raw1, 224, U8_MASK)) ]

\* lastMoveTimestamp is Number() of a 40-bit bigint: exact in JavaScript
\* (below 2^53) but beyond TLC's integers, so it is kept as its bit set.
decodeGameData(raw0, raw1) ==
    LET gameCreator == toAddress(loadBits(raw0, 0, ADDRESS_MASK))
        callCard == Number(loadBits(raw0, 160, U8_MASK))
        playerTurnIdx == Number(loadBits(raw0, 168, U8_MASK))
        status == Number(loadBits(raw0, 176, U8_MASK))
        lastMoveTimestamp == loadBits(raw0, 184, U40_MASK)
        numProposedPlayers == Number(loadBits(raw0, 224, U8_MASK))
        hookPermissions == Number(loadBits(raw0, 232, U8_MASK))
        playerStoreMap == loadBits(raw0, 240, U16_MASK)
        ruleset == toAddress(loadBits(raw1, 0, ADDRESS_MASK))
        marketDeckMap == loadBits(raw1, 160, U64_MASK)
        initialHandSize == Number(loadBits(raw1, 224, U8_MASK))
        playersLeftToJoin == Number(loadBits(raw1, 232, U8_MASK))
        playersJoined == countPlayersFromStore(playerStoreMap)
        maxPlayers == playersJoined + playersLeftToJoin
    IN  [ gameCreator |-> gameCreator,
          callCard |-> callCard,
          playerTurnIdx |-> playerTurnIdx,
          status |-> status,
          lastMoveTimestamp |-> lastMoveTimestamp,
          numProposedPlayers |-> numProposedPlayers,
          hookPermissions |-> hookPermissions,
          playerStoreMap |-> playerStoreMap,
          playersJoined |-> playersJoined,
          playersLeftToJoin |-> playersLeftToJoin,
          maxPlayers |-> maxPlayers,
          ruleset |-> ruleset,
          marketDeckMap |-> marketDeckMap,
          initialHandSize |-> initialHandSize ]

\* a plausible slip: the score read with a mask that also takes the flag byte
decodePlayerData_widescore(raw0, raw1, raw2) ==
    [ playerAddr |-> toAddress(loadBits(raw0, 0, ADDRESS_MASK)),
      deckMap |-> loadBits(raw0, 160, U64_MASK),
      pendingAction |-> Number(loadBits(raw0, 224, U8_MASK)),
      score |-> Number(loadBits(raw0, 232, Mask(24))),
      forfeited |-> loadBits(raw0, 248, U8_MASK) # {},
      hand0 |-> raw1,
      hand1 |-> raw2 ]

\* a plausible slip: the forfeited flag read from the second word
decodePlayerData_flagword(raw0, raw1, raw2) ==
    [ playerAddr |-> toAddress(loadBits(raw0, 0, ADDRESS_MASK)),
      deckMap |-> loadBits(raw0, 160, U64_MASK),
      pendingAction |-> Number(loadBits(raw0, 224, U8_MASK)),
      score |-> Number(loadBits(raw0, 232, U16_MASK)),
      forfeited |-> loadBits(raw1, 248, U8_MASK) # {},
      hand0 |-> raw1,
      hand1 |-> raw2 ]

decodePlayerData(raw0, raw1, raw2) ==
    LET playerAddr == toAddress(loadBits(raw0, 0, ADDRESS_MASK))
        deckMap == loadBits(raw0, 160, U64_MASK)
        pendingAction == Number(loadBits(raw0, 224, U8_MASK))
        score == Number(loadBits(raw0, 232, U16_MASK))
        forfeited == loadBits(raw0, 248, U8_MASK) # {}
    IN  [ playerAddr |-> playerAddr,
          deckMap |-> deckMap,
          pendingAction |-> pendingAction,
          score |-> score,
          forfeited |-> forfeited,
          hand0 |-> raw1,
          hand1 |-> raw2 ]

\* a plausible slip: the width switched off by bit 3 (a subtrahend of 0 or 8)
decodeDeckMap_bit3(deckMap) ==
    [ raw |-> deckMap,
      mapBits |-> Shr(deckMap, 2),
      cardBitSize |-> 8 - Number(BitAnd(deckMap, BigInt(8))) ]

\* a plausible slip: the low two bits added to the narrowest width instead of
\* taken from the widest
decodeDeckMap_countup(deckMap) ==
    [ raw |-> deckMap,
      mapBits |-> Shr(deckMap, 2),
      cardBitSize |-> 5 + Number(BitAnd(deckMap, BigInt(3))) ]

\* decodeDeckMap(deckMap): the low two bits give the card width, the rest the map
decodeDeckMap(deckMap) ==
    [ raw |-> deckMap,
      mapBits |-> Shr(deckMap, 2),
      cardBitSize |-> 8 - Number(BitAnd(deckMap, BigInt(3))) ]

\* the while loop of deckMapToIndexes
RECURSIVE indexLoop(_, _, _, _)
indexLoop(cursor, idx, maxCards, indexes) ==
    IF cursor # {} /\ idx < maxCards
    THEN indexLoop(Shr(cursor, 1), idx + 1, maxCards,
                   IF BitAnd(cursor, BigInt(1)) # {} THEN Append(indexes, idx) ELSE indexes)
    ELSE indexes

\* a plausible slip: the position maxCards itself still visited (i <= maxCards)
deckMapToIndexes_inclusive(deckMap, maxCards) ==
    indexLoop(decodeDeckMap(deckMap).mapBits, 0, maxCards + 1, <<>>)

deckMapToIndexes(deckMap, maxCards) ==
    indexLoop(decodeDeckMap(deckMap).mapBits, 0, maxCards, <<>>)

\* the default of deckMapToIndexes' maxCards parameter
DEFAULT_MAX_CARDS == 64

\* marketSize(deckMap) = deckMapToIndexes(deckMap).length, maxCards defaulting to 64
marketSize(deckMap) == Len(deckMapToIndexes(deckMap, 64))

countDeckCards(deckMap) == Len(deckMapToIndexes(deckMap, DEFAULT_MAX_CARDS))

CARD_SHAPES == << "Circle", "Triangle", "Cross", "Square", "Star", "Whot" >>

\* CARD_SHAPES[(card >> 5) & 0x07] ?? "Circle", for a card below 2^31
cardShape(card) ==
    LET shapeIdx == (card \div 32) % 8
    IN  IF shapeIdx + 1 \in DOMAIN CARD_SHAPES THEN CARD_SHAPES[shapeIdx + 1] ELSE "Circle"

\* card & 0x1f
cardNumber(card) == card % 32

\* the label as the parts of its template string
describeCard(card) ==
    IF card = 0 THEN << "Face down" >>
    ELSE IF cardShape(card) = "Whot" THEN << "Whot-", cardNumber(card) >>
    ELSE << cardShape(card), " ", cardNumber(card) >>

\* a plausible slip: the offset taken from the index without the modulo
handCard_nomod(idx, cardBitSize, cardsPerWord, hand0, hand1) ==
    LET limb == IF idx < cardsPerWord THEN hand0 ELSE hand1
        offset == idx * cardBitSize
        raw == BitAnd(Shr(limb, offset), Mask(cardBitSize))
        value == Number(raw)
    IN  [ index |-> idx, value |-> value, shape |-> cardShape(value),
          number |-> cardNumber(value), label |-> describeCard(value) ]

\* the card decodeHandCards builds for index idx
handCard(idx, cardBitSize, cardsPerWord, hand0, hand1) ==
    LET limb == IF idx < cardsPerWord THEN hand0 ELSE hand1
        offset == (idx % cardsPerWord) * cardBitSize
        raw == BitAnd(Shr(limb, offset), Mask(cardBitSize))
        value == Number(raw)
    IN  [ index |-> idx, value |-> value, shape |-> cardShape(value),
          number |-> cardNumber(value), label |-> describeCard(value) ]

decodeHandCards(deckMap, hand0, hand1) ==
    LET cardBitSize == decodeDeckMap(deckMap).cardBitSize
        indexes == deckMapToIndexes(deckMap, DEFAULT_MAX_CARDS)
    IN  IF cardBitSize = 0 \/ cardBitSize > 32 THEN <<>>
        ELSE LET cardsPerWord == 256 \div cardBitSize
             IN  IF cardsPerWord = 0 THEN <<>>
                 ELSE [ k \in 1 .. Len(indexes) |->
                          handCard(indexes[k], cardBitSize, cardsPerWord, hand0, hand1) ]

\* the reference deck
WHOT_DECK ==
    << 1, 2, 3, 4, 5, 7, 8, 10, 11, 12, 13, 14, 65, 66, 67, 68, 69, 71, 72, 74, 75, 76, 77,
       78, 33, 34, 35, 37, 39, 42, 43, 45, 46, 97, 98, 99, 101, 103, 106, 107, 109, 110, 129,
       130, 131, 132, 133, 135, 136, 180, 180, 180, 180, 180 >>

\* ownedCardsFromMap(deckMap, deck)
ownedCardsFromMap(deckMap, deck) ==
    LET indexes == deckMapToIndexes(deckMap, Len(deck))
    IN  [ k \in 1 .. Len(indexes) |->
            LET idx == indexes[k]
                value == IF idx + 1 \in DOMAIN deck THEN deck[idx + 1] ELSE 0
            IN  [ index |-> idx, value |-> value, shape |-> cardShape(value),
                  number |-> cardNumber(value), label |-> describeCard(value) ] ]

\* (a slip: the cards are packed four bits apart)
RECURSIVE packLimb_nibbles(_)
packLimb_nibbles(arr) ==
    IF arr = <<>> THEN {}
    ELSE packLimb_nibbles(SubSeq(arr, 1, Len(arr) - 1))
            \cup Shl(BigInt(arr[Len(arr)]), (Len(arr) - 1) * 4)

\* packLimb(arr): arr.reduce((acc, v, i) => acc | (BigInt(v) << BigInt(i * 8)), 0n)
RECURSIVE packLimb(_)
packLimb(arr) ==
    IF arr = <<>> THEN {}
    ELSE packLimb(SubSeq(arr, 1, Len(arr) - 1))
            \cup Shl(BigInt(arr[Len(arr)]), (Len(arr) - 1) * 8)

\* the two clear words the deck is encrypted as: the cards 0..31 and 32..53
limb0 == packLimb(SubSeq(WHOT_DECK, 1, 32))

limb1 == packLimb(SubSeq(WHOT_DECK, 33, Len(WHOT_DECK)))

\* ------------------------------------------------------------------------
\* Values that may be absent: undefined is <<>>, a value x is <<x>>
\* ------------------------------------------------------------------------

None == <<>>

Some(x) == <<x>>

\* a plausible slip: a missing value defaults to 1n
orZero_one(values, k) ==
    IF k + 1 <= Len(values) /\ values[k + 1] # None THEN values[k + 1][1] ELSE BigInt(1)

\* values[k] ?? 0n, for a 0-based index k into a list of optional bigints
orZero(values, k) ==
    IF k + 1 <= Len(values) /\ values[k + 1] # None THEN values[k + 1][1] ELSE {}

\* value is undefined, or the hex string "0x" (no digits), or a hex string
hexToBigIntSafe(value) ==
    IF value = None \/ value[1] = <<>> THEN {} ELSE hexToBigInt(value[1])

\* ------------------------------------------------------------------------
\* Slot derivation.  A slot number is a sequence of integers:
\*   <<n>>            the plain number n
\*   <<n, a, b>>      keccak256(abi(a, b)) + n
\*   <<n, m, a, b>>   keccak256(abi(keccak256(abi(a, b)) + m)) + n
\* keccak256 is taken to be collision free, and the offsets added to a hash
\* small against the distance between two hashes.
\* ------------------------------------------------------------------------

GAME_DATA_SLOT == 2

GAME_ID_SLOT == 1

PLAYER_DATA_OFFSET == 4

COMMITMENT_SLOT == 0

\* keccak256(encodeAbiParameters([uint256, uint256], [a, b]))
keccak2(a, b) == <<0, a, b>>

\* keccak256(encodeAbiParameters([uint256], [x])) of a hashed slot number x
keccak1(x) == <<0>> \o x

\* slot + n
SlotAdd(slot, n) == [ slot EXCEPT ![1] = @ + n ]

gameDataSlot(gameId) == keccak2(gameId, GAME_DATA_SLOT)

commitmentSlot(gameId) == keccak2(gameId, COMMITMENT_SLOT)

\* a plausible slip: a stride of two words for a record of three
playerDataSlot_stride(gameId, playerIndex) ==
    SlotAdd(keccak1(SlotAdd(gameDataSlot(gameId), PLAYER_DATA_OFFSET)), playerIndex * 2)

playerDataSlot(gameId, playerIndex) ==
    LET gameSlot == gameDataSlot(gameId)
        baseSlot == SlotAdd(gameSlot, PLAYER_DATA_OFFSET)
        baseHash == keccak1(baseSlot)
    IN  SlotAdd(baseHash, playerIndex * 3)

\* ------------------------------------------------------------------------
\* State
\* ------------------------------------------------------------------------

VARIABLES
    packed,     \* the field values the contract packed into the two words
    raw0,       \* first word handed to decodeGameData
    raw1,       \* second word handed to decodeGameData
    flip,       \* <<word, bit>> of a bit changed after packing, or <<>>
    view,       \* <<GameDataView>> once decoded, <<>> before
    storage,    \* the contract's storage: slot -> word (zero where absent)
    call,       \* the operation invoked and its arguments
    pc,         \* where the read operation stands
    chunkStart,          \* readGameDataBatch: start index of the current chunk
    results,    \* readGameDataBatch: the Map built so far, game ID -> view
    calls,      \* the calls made for the current chunk (or single read)
    inflight,   \* number of calls the operation is awaiting
    stale,      \* calls of a rejected Promise.all that are still outstanding
    last,       \* <<entry>> of the chunk (or single read) served last, or <<>>
    ret,        \* <<value>> once the operation has returned, <<>> otherwise
    requested,  \* the slot lists handed to readExtsload so far, one per chunk
    playerPacked,   \* the field values the contract packed into a player's word 0
    playerWords,    \* the three words handed to decodePlayerData
    player,     \* <<PlayerDataView>> once decoded, <<>> before
    handArgs,   \* the arguments of the deck-map functions
    deckShape,  \* <<DeckMapShape>> once decodeDeckMap has run, <<>> before
    cardIndexes,    \* <<list>> once deckMapToIndexes has run, <<>> before
    handCards   \* <<list>> once decodeHandCards has run, <<>> before

\* the game page (app/games/[id]/page): wallet, queries, React state, refs and
\* the handlers' pending calls
VARIABLES
    address,            \* <<account>> of the connected wallet, <<>> when disconnected
    chainCommitment,    \* the game's commitment hash on chain (0 or non-zero)
    commitmentQuery,    \* the "commitment" query: [data, isLoading]
    gameQuery,          \* the "game-data" query's data: <<GameData>> or <<>>
    playersQuery,       \* the "players" query's data: the list of PlayerRow
    fheStatus,          \* status of the FHE relayer hook
    action,             \* the selected action: 0 Play, 1 Defend, 2 Draw
    pendingProofData,   \* React state: <<proof>> or <<>> for null
    pendingCardIndex,   \* React state: <<index>> or <<>> for null
    pendingAction,      \* React state: <<action>> or <<>> for null
    isDecrypting,       \* React state
    proofLoadedRef,     \* proofLoadedRef.current: <<loadKey>> or <<>> for null
    commitMove,         \* <<call>> while commitMove.mutateAsync is awaited
    decrypting,         \* <<call>> while handleCommit awaits publicDecrypt
    executeMove,        \* <<call>> while handleExecute awaits executeMove
    drawMove,           \* <<call>> while handleDrawFromMarket awaits executeMove
    breakCommitment,    \* <<call>> while breakCommitment.mutateAsync is awaited
    executeToast,       \* the toast handleExecute showed last, "" before the first
    localStorage,       \* window.localStorage: key -> stored value
    now,                \* Date.now(), counted in ticks
    myHand,             \* React state: <<cards>> or <<>> for null
    handStale,          \* React state
    lastHandSignature,  \* React state: <<signature>> or <<>> for null
    isRevealingHand,    \* React state
    burnerAddress,      \* React state: <<address>> or <<>> for null
    autoRevealRef,      \* autoRevealRef.current
    autoRevealTimer,    \* the auto-reveal effect's setTimeout: "none", "pending", "running"
    revealCall,         \* <<call>> while handleRevealHand awaits the decryption
    effectDeps          \* <<dependencies>> React ran the hand effects with, <<>> before

\* the game feed (hooks/useGameFeed): the chain it reads and its query function
VARIABLES
    feedChain,      \* the contract: [nextGameId, live], live the IDs of games with a creator
    feedQuery,      \* the query function's position and locals
    feedReads,      \* the ID lists the current query handed to readGameDataBatch
    feedResult,     \* <<games>> the query function returned last, <<>> before
    feedSaved       \* <<[nextGameId, at, games]>> of the query that saved the cache last

feedVars == <<feedChain, feedQuery, feedReads, feedResult, feedSaved>>

pageVars ==
    <<address, chainCommitment, commitmentQuery, gameQuery, playersQuery, fheStatus,
      action, pendingProofData, pendingCardIndex, pendingAction, isDecrypting,
      proofLoadedRef, commitMove, decrypting, executeMove, drawMove, breakCommitment,
      executeToast>>

storeVars == <<localStorage, now>>

revealVars ==
    <<myHand, handStale, lastHandSignature, isRevealingHand, burnerAddress,
      autoRevealRef, autoRevealTimer, revealCall, effectDeps>>

decodeVars == <<packed, raw0, raw1, flip, view>>

readVars ==
    <<storage, call, pc, chunkStart, results, calls, inflight, stale, last, ret, requested>>

playerVars == <<playerPacked, playerWords, player>>

cardVars == <<handArgs, deckShape, cardIndexes, handCards>>

vars == <<packed, raw0, raw1, flip, view,
          storage, call, pc, chunkStart, results, calls, inflight, stale, last, ret,
          requested, playerPacked, playerWords, player,
          handArgs, deckShape, cardIndexes, handCards,
          pageVars, storeVars, revealVars, feedVars>>

\* the page's variables, for the frames of the decoder's and the reader's actions
uiVars == <<pageVars, storeVars, revealVars, feedVars>>

\* ------------------------------------------------------------------------
\* Inputs of the decoders: field values at the boundaries of their widths
\* ------------------------------------------------------------------------

ZERO_ADDRESS == [ j \in 1 .. 40 |-> 0 ]

Addresses ==
    { ZERO_ADDRESS,
      [ j \in 1 .. 40 |-> 15 ],
      [ j \in 1 .. 40 |-> IF j = 40 THEN 1 ELSE 0 ],
      [ j \in 1 .. 40 |-> IF j = 1 THEN 8 ELSE 0 ],
      [ j \in 1 .. 40 |-> (7 * j) % 16 ] }

ByteSamples == { 0, 1, 2, 128, 255 }

TimestampSamples == { {}, 0 .. 39, {0}, {39}, {31, 32} }

\* seat maps: every combination of these positions of the 16-bit map
SeatPositions == { 0, 1, 2, 3, 8, 13, 14, 15 }

SeatMaps == SUBSET SeatPositions

MarketSamples == { {}, 0 .. 63, {0, 1}, {63}, {2, 33} }

\* bits 240..255 of the second word belong to no field
PadSamples == { {}, 0 .. 15 }

FieldNames ==
    { "creator", "callCard", "playerTurnIdx", "status", "lastMoveTimestamp",
      "numProposedPlayers", "hookPermissions", "playerStoreMap", "ruleset",
      "marketDeckMap", "initialHandSize", "playersLeftToJoin", "pad" }

Samples(f) ==
    CASE f \in { "creator", "ruleset" } -> Addresses
      [] f = "lastMoveTimestamp" -> TimestampSamples
      [] f = "playerStoreMap" -> SeatMaps
      [] f = "marketDeckMap" -> MarketSamples
      [] f = "pad" -> PadSamples
      [] OTHER -> ByteSamples

AllZeroFields ==
    [ creator |-> ZERO_ADDRESS, callCard |-> 0, playerTurnIdx |-> 0, status |-> 0,
      lastMoveTimestamp |-> {}, numProposedPlayers |-> 0, hookPermissions |-> 0,
      playerStoreMap |-> {}, ruleset |-> ZERO_ADDRESS, marketDeckMap |-> {},
      initialHandSize |-> 0, playersLeftToJoin |-> 0, pad |-> {} ]

AllOneFields ==
    [ creator |-> [ j \in 1 .. 40 |-> 15 ], callCard |-> 255, playerTurnIdx |-> 255,
      status |-> 255, lastMoveTimestamp |-> 0 .. 39, numProposedPlayers |-> 255,
      hookPermissions |-> 255, playerStoreMap |-> 0 .. 15,
      ruleset |-> [ j \in 1 .. 40 |-> 15 ], marketDeckMap |-> 0 .. 63,
      initialHandSize |-> 255, playersLeftToJoin |-> 255, pad |-> 0 .. 15 ]

\* one field at each of its sample values, the others all zero or all one;
\* and every seat map with every count of players left to join
GameInputs ==
    UNION { { [ base EXCEPT ![f] = v ] : v \in Samples(f) } :
              base \in { AllZeroFields, AllOneFields }, f \in FieldNames }
    \cup { [ AllZeroFields EXCEPT !.playerStoreMap = m, !.playersLeftToJoin = n ] :
              m \in SeatMaps, n \in ByteSamples }

\* the contract's packing of the game struct into its two storage words
PackWord0(p) ==
    hexToBigInt(p.creator)
    \cup Shl(BigInt(p.callCard), 160)
    \cup Shl(BigInt(p.playerTurnIdx), 168)
    \cup Shl(BigInt(p.status), 176)
    \cup Shl(p.lastMoveTimestamp, 184)
    \cup Shl(BigInt(p.numProposedPlayers), 224)
    \cup Shl(BigInt(p.hookPermissions), 232)
    \cup Shl(p.playerStoreMap, 240)

PackWord1(p) ==
    hexToBigInt(p.ruleset)
    \cup Shl(p.marketDeckMap, 160)
    \cup Shl(BigInt(p.initialHandSize), 224)
    \cup Shl(BigInt(p.playersLeftToJoin), 232)
    \cup Shl(p.pad, 240)

WordBits == 0 .. 255

\* the packings whose words are also decoded with one bit changed
FlipBases ==
    { AllZeroFields, AllOneFields,
      [ AllZeroFields EXCEPT !.status = 255 ] }

\* value with bit i inverted
Toggle(value, i) == IF i \in value THEN value \ {i} ELSE value \cup {i}

\* ------------------------------------------------------------------------
\* Inputs of decodePlayerData
\* ------------------------------------------------------------------------

ScoreSamples == { 0, 1, 255, 256, 65535 }

HandleSamples == { {}, WordBits, {0}, {255}, {7, 128} }

PlayerFieldNames ==
    { "playerAddr", "deckMap", "pendingAction", "score", "forfeited", "hand0", "hand1" }

PlayerSamples(f) ==
    CASE f = "playerAddr" -> Addresses
      [] f = "deckMap" -> MarketSamples
      [] f = "score" -> ScoreSamples
      [] f \in { "hand0", "hand1" } -> HandleSamples
      [] OTHER -> ByteSamples

\* forfeited is the value of the byte the contract keeps the flag in
AllZeroPlayer ==
    [ playerAddr |-> ZERO_ADDRESS, deckMap |-> {}, pendingAction |-> 0, score |-> 0,
      forfeited |-> 0, hand0 |-> {}, hand1 |-> {} ]

AllOnePlayer ==
    [ playerAddr |-> [ j \in 1 .. 40 |-> 15 ], deckMap |-> 0 .. 63, pendingAction |-> 255,
      score |-> 65535, forfeited |-> 255, hand0 |-> WordBits, hand1 |-> WordBits ]

PlayerInputs ==
    UNION { { [ base EXCEPT ![f] = v ] : v \in PlayerSamples(f) } :
              base \in { AllZeroPlayer, AllOnePlayer }, f \in PlayerFieldNames }

\* the contract's packing of the typed player fields into the first word
PackPlayerWord0(p) ==
    hexToBigInt(p.playerAddr)
    \cup Shl(p.deckMap, 160)
    \cup Shl(BigInt(p.pendingAction), 224)
    \cup Shl(BigInt(p.score), 232)
    \cup Shl(BigInt(p.forfeited), 248)

\* the player records whose words are also decoded with one bit changed
PlayerFlipBases ==
    { AllZeroPlayer, AllOnePlayer, [ AllZeroPlayer EXCEPT !.score = 65535 ] }

\* ------------------------------------------------------------------------
\* Inputs of the deck-map functions
\* ------------------------------------------------------------------------

\* card maps: empty, full, and cards on both sides of the last field of the
\* first clear word for each card width (51, 42, 36 and 32 fields a word),
\* of position 54 (the length of the reference deck) and of position 64
MapBitsSamples ==
    { {}, {0}, 0 .. 61, {0, 1, 5}, {31, 32}, {35, 36, 41, 42}, {50, 51, 61},
      {0, 53, 54, 60}, {2, 63, 64, 70} }

\* raw deck maps: each card map under each value of the two low bits
DeckMaps == { Shl(m, 2) \cup low : m \in MapBitsSamples, low \in SUBSET {0, 1} }

MaxCardsSamples == { 0, 1, 32, 54, DEFAULT_MAX_CARDS, 80 }

\* clear words: zero, all ones, and two patterns that differ in every field
ClearWords ==
    { {}, WordBits, { b \in WordBits : b % 3 = 0 }, { b \in WordBits : (b \div 3) % 2 = 1 } }

MkHandArgs(deckMap, hand0, hand1, maxCards) ==
    [ deckMap |-> deckMap, hand0 |-> hand0, hand1 |-> hand1, maxCards |-> maxCards ]

NoHandArgs == MkHandArgs({}, {}, {}, 0)

\* each deck map with every maxCards, with every pair of clear words, and
\* with the clear words of the reference deck
HandInputs ==
    { MkHandArgs(d, {}, {}, m) : d \in DeckMaps, m \in MaxCardsSamples }
    \cup { MkHandArgs(d, h0, h1, DEFAULT_MAX_CARDS) :
              d \in DeckMaps, h0 \in ClearWords, h1 \in ClearWords }
    \cup { MkHandArgs(d, limb0, limb1, DEFAULT_MAX_CARDS) : d \in DeckMaps }

\* ------------------------------------------------------------------------
\* Inputs of the read operations
\* ------------------------------------------------------------------------

\* largest game ID passed to a read
MaxGameId == 3

\* longest list of game IDs passed to readGameDataBatch (see IdLists)
MaxIds == 2

\* largest player index passed to readPlayerData
MaxPlayerIndex == 1

\* a batchSize small enough to split the lists into several chunks
SmallBatch == 1

\* the default of readGameDataBatch's batchSize parameter
DEFAULT_BATCH_SIZE == 50

BatchSizes == { SmallBatch, DEFAULT_BATCH_SIZE }

\* the sequences over S of length at most n
RECURSIVE SeqsUpTo(_, _)
SeqsUpTo(S, n) ==
    IF n = 0 THEN { <<>> }
    ELSE LET shorter == SeqsUpTo(S, n - 1)
         IN  shorter \cup { Append(q, x) : q \in shorter, x \in S }

\* game ID lists: every short list (with 0 and repeated IDs), and [1, 2, 3]
IdLists == SeqsUpTo(0 .. MaxGameId, MaxIds) \cup { <<1, 2, 3>> }

MkCall(op, gameId, playerIndex, gameIds, batchSize) ==
    [ op |-> op, gameId |-> gameId, playerIndex |-> playerIndex,
      gameIds |-> gameIds, batchSize |-> batchSize ]

NoCall == MkCall("none", 0, 0, <<>>, 0)

Calls ==
    { MkCall("readGameData", g, 0, <<>>, 0) : g \in 1 .. MaxGameId }
    \cup { MkCall("readPlayerData", 1, p, <<>>, 0) : p \in 0 .. MaxPlayerIndex }
    \cup { MkCall("readCommitmentHash", 1, 0, <<>>, 0),
           MkCall("readNextGameId", 0, 0, <<>>, 0) }
    \cup { MkCall("readGameDataBatch", 0, 0, ids, b) : ids \in IdLists, b \in BatchSizes }

\* a started game with two seats taken, and a record with fields set but no creator
LiveGame ==
    [ AllZeroFields EXCEPT !.creator = [ j \in 1 .. 40 |-> (7 * j) % 16 ],
                           !.callCard = 37, !.status = 1,
                           !.lastMoveTimestamp = {3, 30, 31},
                           !.numProposedPlayers = 4, !.playerStoreMap = {0, 1, 2},
                           !.ruleset = [ j \in 1 .. 40 |-> (3 * j) % 16 ],
                           !.marketDeckMap = {2, 33}, !.initialHandSize = 5,
                           !.playersLeftToJoin = 2 ]

GhostGame == [ LiveGame EXCEPT !.creator = ZERO_ADDRESS ]

\* the two words a game may hold in storage
GameRecords ==
    { << {}, {} >>,
      << PackWord0(LiveGame), PackWord1(LiveGame) >>,
      << PackWord0(GhostGame), PackWord1(GhostGame) >> }

\* the three words a player may hold in storage
PlayerRecords ==
    { << {}, {}, {} >>,
      << hexToBigInt([ j \in 1 .. 40 |-> (5 * j) % 16 ]) \cup {160, 165, 224, 233, 248},
         {0, 5, 200}, {255} >> }

CommitmentWords == { {}, {3, 250} }

NextGameIdWords == { {}, BigInt(4) }

\* the set of the elements of a sequence
Range(q) == { q[k] : k \in 1 .. Len(q) }

\* storage holding the given two-word record of each game of `choice`
GameStorage(choice) ==
    [ s \in { SlotAdd(gameDataSlot(g), k) : g \in DOMAIN choice, k \in 0 .. 1 } |->
        choice[s[2]][s[1] + 1] ]

\* the storages a call is run against: every choice of words at the slots
\* the call reads (slots it never reads hold zero)
Storages(c) ==
    CASE c.op = "readGameData" ->
            { GameStorage([ g \in { c.gameId } |-> r ]) : r \in GameRecords }
      [] c.op = "readGameDataBatch" ->
            { GameStorage(choice) :
                choice \in [ { g \in Range(c.gameIds) : g > 0 } -> GameRecords ] }
      [] c.op = "readPlayerData" ->
            LET slot == playerDataSlot(c.gameId, c.playerIndex)
            IN  { [ s \in { SlotAdd(slot, k) : k \in 0 .. 2 } |-> r[s[1] - slot[1] + 1] ] :
                    r \in PlayerRecords }
      [] c.op = "readCommitmentHash" ->
            { [ s \in { commitmentSlot(c.gameId) } |-> w ] : w \in CommitmentWords }
      [] c.op = "readNextGameId" ->
            { [ s \in { <<GAME_ID_SLOT>> } |-> w ] : w \in NextGameIdWords }

\* ------------------------------------------------------------------------
\* The remote side: the contract's extsload and the node's eth_getStorageAt
\* ------------------------------------------------------------------------

StorageAt(slot) == IF slot \in DOMAIN storage THEN storage[slot] ELSE {}

\* the 32-byte hex string of a word, as 64 digits
HexOf(word) == [ j \in 1 .. 64 |-> Nibble(word, 64 - j) ]

\* the slots extsload(slot, count) or extsload(slots) reads, in result order
ExtsloadSlots(args) ==
    IF args.range THEN [ k \in 1 .. args.count |-> SlotAdd(args.slot, k - 1) ]
    ELSE args.slots

\* what a successful extsload call may hand back.  The result is typed as a
\* list of bigints (raw as readonly bigint[]): the words of the slots, the list
\* cut short, or one entry undefined
ExtsloadResponses(args) ==
    LET slots == ExtsloadSlots(args)
        full == [ k \in 1 .. Len(slots) |-> Some(StorageAt(slots[k])) ]
    IN  { full }
        \cup { SubSeq(full, 1, n) : n \in 0 .. (Len(full) - 1) }
        \cup { [ full EXCEPT ![h] = None ] : h \in 1 .. Len(full) }

\* what successful getStorageAt calls for the slots may hand back: the hex
\* words, or one of them undefined, or one of them the empty hex string "0x"
StorageResponses(slots) ==
    LET full == [ k \in 1 .. Len(slots) |-> Some(HexOf(StorageAt(slots[k]))) ]
    IN  { full }
        \cup { [ full EXCEPT ![h] = None ] : h \in 1 .. Len(full) }
        \cup { [ full EXCEPT ![h] = Some(<<>>) ] : h \in 1 .. Len(full) }

\* ------------------------------------------------------------------------
\* The read operations
\* ------------------------------------------------------------------------

Min(a, b) == IF a < b THEN a ELSE b

\* Array.from(new Set(gameIds.filter((id) => id > 0n))): first occurrences, in order
RECURSIVE uniqueIdsFrom(_, _)
uniqueIdsFrom(gameIds, acc) ==
    IF gameIds = <<>> THEN acc
    ELSE LET id == Head(gameIds)
         IN  uniqueIdsFrom(Tail(gameIds),
                           IF id > 0 /\ id \notin Range(acc) THEN Append(acc, id) ELSE acc)

\* a plausible slip: the IDs filtered but not deduplicated
uniqueIds_repeats(gameIds) == SelectSeq(gameIds, LAMBDA id : id > 0)

uniqueIds(gameIds) == uniqueIdsFrom(gameIds, <<>>)

\* uniqueIds.slice(start, start + batchSize)
sliceOf(c, start) ==
    LET ids == uniqueIds(c.gameIds)
    IN  SubSeq(ids, start + 1, Min(start + c.batchSize, Len(ids)))

\* a plausible slip: the second slot of a game taken two further instead of one
batchSlots_stride(slice) ==
    [ k \in 1 .. 2 * Len(slice) |->
        SlotAdd(gameDataSlot(slice[(k + 1) \div 2]), 2 * ((k - 1) % 2)) ]

\* for (const id of slice) slots.push(slot, slot + 1n)
batchSlots(slice) ==
    [ k \in 1 .. 2 * Len(slice) |->
        SlotAdd(gameDataSlot(slice[(k + 1) \div 2]), (k - 1) % 2) ]

RangeArgs(slot, count) == [ range |-> TRUE, slot |-> slot, count |-> count, slots |-> <<>> ]

ListArgs(slots) == [ range |-> FALSE, slot |-> <<0>>, count |-> 0, slots |-> slots ]

\* the arguments the operation passes to readExtsload
extsloadArgs(c, start) ==
    CASE c.op = "readGameData" -> RangeArgs(gameDataSlot(c.gameId), 2)
      [] c.op = "readPlayerData" -> RangeArgs(playerDataSlot(c.gameId, c.playerIndex), 3)
      [] c.op = "readCommitmentHash" -> RangeArgs(commitmentSlot(c.gameId), 1)
      [] c.op = "readNextGameId" -> RangeArgs(<<GAME_ID_SLOT>>, 1)
      [] c.op = "readGameDataBatch" -> ListArgs(batchSlots(sliceOf(c, start)))

\* the slots the operation passes to readStorageSlots
fallbackSlots(c, start) ==
    CASE c.op = "readGameData" ->
            << gameDataSlot(c.gameId), SlotAdd(gameDataSlot(c.gameId), 1) >>
      [] c.op = "readPlayerData" ->
            << playerDataSlot(c.gameId, c.playerIndex),
               SlotAdd(playerDataSlot(c.gameId, c.playerIndex), 1),
               SlotAdd(playerDataSlot(c.gameId, c.playerIndex), 2) >>
      [] c.op = "readCommitmentHash" -> << commitmentSlot(c.gameId) >>
      [] c.op = "readNextGameId" -> << <<GAME_ID_SLOT>> >>
      [] c.op = "readGameDataBatch" -> batchSlots(sliceOf(c, start))

\* the number of words the operation takes from a result list
wordCount(c, start) ==
    CASE c.op = "readGameData" -> 2
      [] c.op = "readPlayerData" -> 3
      [] c.op = "readCommitmentHash" -> 1
      [] c.op = "readNextGameId" -> 1
      [] c.op = "readGameDataBatch" -> 2 * Len(sliceOf(c, start))

\* a plausible slip: the result list indexed from 1 instead of 0
wordsOf_shifted(c, start, values) == [ k \in 1 .. wordCount(c, start) |-> orZero(values, k) ]

\* the words the operation takes from a result list: values[k] ?? 0n
wordsOf(c, start, values) == [ k \in 1 .. wordCount(c, start) |-> orZero(values, k - 1) ]

\* values.map((value) => hexToBigIntSafe(value)), the result of readStorageSlots
storageValues(resp) == [ k \in 1 .. Len(resp) |-> Some(hexToBigIntSafe(resp[k])) ]

\* a plausible slip: records without a creator are left out of the Map
batchSet_filtered(map, slice, words) ==
    LET kept == { id \in Range(slice) :
                    LET j == CHOOSE k \in 1 .. Len(slice) : slice[k] = id
                    IN  decodeGameData(words[2 * j - 1], words[2 * j]).gameCreator # ZERO_ADDRESS }
    IN  [ id \in DOMAIN map \cup kept |->
            IF id \in kept
            THEN LET j == CHOOSE k \in 1 .. Len(slice) : slice[k] = id
                 IN  decodeGameData(words[2 * j - 1], words[2 * j])
            ELSE map[id] ]

\* results.set(slice[j], decodeGameData(raw0, raw1)) for every j
batchSet(map, slice, words) ==
    [ id \in DOMAIN map \cup Range(slice) |->
        IF id \in Range(slice)
        THEN LET j == CHOOSE k \in 1 .. Len(slice) : slice[k] = id
             IN  decodeGameData(words[2 * j - 1], words[2 * j])
        ELSE map[id] ]

\* the loop of useGameFeed's queryFn over the requested IDs: a game is listed
\* unless the Map has no entry for it or its creator is the zero address
RECURSIVE feedGames(_, _)
feedGames(gameIds, dataMap) ==
    IF gameIds = <<>> THEN <<>>
    ELSE LET gameId == Head(gameIds)
             rest == feedGames(Tail(gameIds), dataMap)
         IN  IF gameId \notin DOMAIN dataMap \/ dataMap[gameId].gameCreator = ZERO_ADDRESS
             THEN rest
             ELSE LET gameData == dataMap[gameId]
                  IN  << [ gameId |-> gameId,
                           creator |-> gameData.gameCreator,
                           status |-> gameData.status,
                           playersLeftToJoin |-> gameData.playersLeftToJoin,
                           maxPlayers |-> gameData.maxPlayers,
                           callCard |-> gameData.callCard,
                           lastMove |-> gameData.lastMoveTimestamp,
                           ruleset |-> gameData.ruleset,
                           marketDeckMap |-> gameData.marketDeckMap,
                           marketCount |-> marketSize(gameData.marketDeckMap),
                           playerTurnIdx |-> gameData.playerTurnIdx,
                           playersJoined |-> gameData.playersJoined ] >> \o rest

\* the value a single-record read returns for the words it took
returnValue(c, words) ==
    CASE c.op = "readGameData" -> decodeGameData(words[1], words[2])
      [] c.op = "readPlayerData" -> decodePlayerData(words[1], words[2], words[3])
      [] c.op = "readCommitmentHash" -> words[1]
      [] c.op = "readNextGameId" -> words[1]

NoCalls ==
    [ readContractBalanced |-> 0, readContract |-> 0, readStorageSlots |-> 0,
      getStorageAtBalanced |-> <<>>, getStorageAt |-> <<>> ]

\* the first await of a chunk: readExtsload calls readContractBalanced
FirstCalls == [ NoCalls EXCEPT !.readContractBalanced = 1 ]

EmptyMap == [ id \in {} |-> {} ]

\* no words have been handed to decodeGameData
NoGameWords == packed = AllZeroFields /\ raw0 = {} /\ raw1 = {} /\ view = <<>>

\* no words have been handed to decodePlayerData
NoPlayerWords ==
    playerPacked = AllZeroPlayer /\ playerWords = << {}, {}, {} >> /\ player = <<>>

\* no deck map has been handed to the deck-map functions
NoHandWords ==
    handArgs = NoHandArgs /\ deckShape = <<>> /\ cardIndexes = <<>> /\ handCards = <<>>

\* ------------------------------------------------------------------------
\* The game page: strings, storage keys and the flags derived in each render
\* ------------------------------------------------------------------------

\* the letters addresses are written with here; a string is a sequence of them
Letters == { "a", "b", "c", "A", "B", "C" }

LowerLetter ==
    [ ch \in Letters |->
        IF ch = "A" THEN "a" ELSE IF ch = "B" THEN "b" ELSE IF ch = "C" THEN "c" ELSE ch ]

\* String.prototype.toLowerCase
toLowerCase(str) == [ k \in 1 .. Len(str) |-> LowerLetter[str[k]] ]

\* the chain and the game the page shows
chainId == 31337

gameKey == 7

COMMIT_PREFIX == "whot-pending-commit"

\* commitmentCache.buildKey: the template string, one element per interpolation
commitKey(chain, game, addr) == << COMMIT_PREFIX, chain, game, toLowerCase(addr) >>

\* window.localStorage.getItem: <<value>> or <<>> for null
getItem(store, key) == IF key \in DOMAIN store THEN << store[key] >> ELSE <<>>

\* window.localStorage.setItem
setItem(store, key, value) ==
    [ k \in DOMAIN store \cup { key } |-> IF k = key THEN value ELSE store[k] ]

\* window.localStorage.removeItem
removeItem(store, key) == [ k \in DOMAIN store \ { key } |-> store[k] ]

\* loadPendingCommit(chainId, gameId, address): <<PendingCommit>> or <<>> for null
loadPendingCommit(store, chain, game, addr) ==
    IF addr = <<>> THEN <<>>
    ELSE LET raw == getItem(store, commitKey(chain, game, addr[1]))
         IN  IF raw = <<>> THEN <<>>
             ELSE IF raw[1].proofData = <<>> THEN <<>>
             ELSE raw

\* savePendingCommit(chainId, gameId, address, data); a setItem that throws,
\* which the code ignores, is not modelled
savePendingCommit(store, chain, game, addr, data) ==
    IF addr = <<>> THEN store
    ELSE setItem(store, commitKey(chain, game, addr[1]), data)

\* clearPendingCommit(chainId, gameId, address)
clearPendingCommit(store, chain, game, addr) ==
    IF addr = <<>> THEN store
    ELSE removeItem(store, commitKey(chain, game, addr[1]))

\* useCardGameActions().isConnected: a wallet account is connected
isConnected == address # <<>>

\* const { data: commitmentHash = 0n, isLoading: loadingCommitment } = useQuery(...)
commitmentHash == IF commitmentQuery.data = <<>> THEN 0 ELSE commitmentQuery.data[1]

loadingCommitment == commitmentQuery.isLoading

\* players.find((p) => p.addr.toLowerCase() === (address ?? "").toLowerCase())
me ==
    LET mine == SelectSeq(playersQuery,
                    LAMBDA p : toLowerCase(p.addr)
                                 = toLowerCase(IF address = <<>> THEN <<>> ELSE address[1]))
    IN  IF mine = <<>> THEN <<>> ELSE << mine[1] >>

gameStarted == gameQuery # <<>> /\ gameQuery[1].status = 1

isMyTurn == me # <<>> /\ gameQuery # <<>> /\ gameQuery[1].playerTurnIdx = me[1].index

pendingPickCount == IF me = <<>> THEN 0 ELSE me[1].pendingAction

mustResolvePending == gameStarted /\ isMyTurn /\ pendingPickCount > 0

canPlayTurn == gameStarted /\ isMyTurn

needsCommit == action = 0 \/ action = 1

hasStoredProof == pendingProofData # <<>>

hasCommittedOnChain == commitmentHash # 0

hasPendingCommit == hasStoredProof \/ hasCommittedOnChain

\* (a slip: a pending commit does not block the next one)
canCommitSelected_ignorespending ==
    /\ isConnected
    /\ canPlayTurn
    /\ needsCommit
    /\ fheStatus = "ready"
    /\ commitMove = <<>>
    /\ ~isDecrypting
    /\ ~mustResolvePending

canCommitSelected ==
    /\ isConnected
    /\ canPlayTurn
    /\ needsCommit
    /\ fheStatus = "ready"
    /\ commitMove = <<>>
    /\ ~isDecrypting
    /\ ~hasPendingCommit
    /\ ~mustResolvePending

\* the page before its queries have answered, no wallet connected
NoPage ==
    /\ address = <<>>
    /\ chainCommitment = 0
    /\ commitmentQuery = [ data |-> <<>>, isLoading |-> TRUE ]
    /\ gameQuery = <<>>
    /\ playersQuery = <<>>
    /\ fheStatus = "idle"
    /\ action = 0
    /\ pendingProofData = <<>>
    /\ pendingCardIndex = <<>>
    /\ pendingAction = <<>>
    /\ isDecrypting = FALSE
    /\ proofLoadedRef = <<>>
    /\ commitMove = <<>>
    /\ decrypting = <<>>
    /\ executeMove = <<>>
    /\ drawMove = <<>>
    /\ breakCommitment = <<>>
    /\ executeToast = ""

\* no hand has been revealed and no reveal is under way
NoReveal ==
    /\ myHand = <<>>
    /\ handStale = FALSE
    /\ lastHandSignature = <<>>
    /\ isRevealingHand = FALSE
    /\ burnerAddress = <<>>
    /\ autoRevealRef = FALSE
    /\ autoRevealTimer = "none"
    /\ revealCall = <<>>
    /\ effectDeps = <<>>

\* nothing is stored in the browser
NoStore == localStorage = EmptyMap /\ now = 0

\* the locals of the feed's query function: where it stands, the cache it
\* loaded, the next game ID it read and when it compared it with the cache,
\* and the save it follows
MkFeedQuery(pc_, cache, nextGameId, checkedAt, after) ==
    [ pc |-> pc_, cache |-> cache, nextGameId |-> nextGameId, checkedAt |-> checkedAt,
      after |-> after ]

\* the feed's query function has not run
NoFeed ==
    /\ feedChain = [ nextGameId |-> 0, live |-> {} ]
    /\ feedQuery = MkFeedQuery("idle", <<>>, 0, 0, <<>>)
    /\ feedReads = <<>>
    /\ feedResult = <<>>
    /\ feedSaved = <<>>

ReadInit ==
    /\ call \in Calls
    /\ storage \in Storages(call)
    /\ pc = "start"
    /\ chunkStart = 0
    /\ results = EmptyMap
    /\ calls = NoCalls
    /\ inflight = 0
    /\ stale = 0
    /\ last = <<>>
    /\ ret = None
    /\ requested = <<>>
    /\ flip = <<>>
    /\ NoGameWords
    /\ NoPlayerWords
    /\ NoHandWords
    /\ NoPage
    /\ NoStore
    /\ NoReveal
    /\ NoFeed

\* the operation is called and runs to its first await: the readContractBalanced
\* call of readExtsload (readGameDataBatch with no ID above 0 returns at once)
Invoke ==
    /\ pc = "start"
    /\ IF call.op = "readGameDataBatch" /\ uniqueIds(call.gameIds) = <<>>
       THEN /\ pc' = "done"
            /\ ret' = Some(results)
            /\ UNCHANGED <<calls, inflight, requested>>
       ELSE /\ pc' = "extsloadBalanced"
            /\ calls' = FirstCalls
            /\ inflight' = 1
            /\ requested' = << ExtsloadSlots(extsloadArgs(call, chunkStart)) >>
            /\ ret' = ret
    /\ UNCHANGED <<storage, call, chunkStart, results, stale, last>>
    /\ UNCHANGED <<decodeVars, playerVars, cardVars, uiVars>>

\* a chunk (or single read) has its result list: decode, then return or go on
\* with the next chunk
Served(path, resp, words) ==
    /\ last' = << [ path |-> path, start |-> chunkStart, resp |-> resp,
                     words |-> words, calls |-> calls ] >>
    /\ IF call.op = "readGameDataBatch"
       THEN /\ results' = batchSet(results, sliceOf(call, chunkStart), words)
            /\ chunkStart' = chunkStart + call.batchSize
            /\ IF chunkStart' < Len(uniqueIds(call.gameIds))
               THEN /\ pc' = "extsloadBalanced"
                    /\ calls' = FirstCalls
                    /\ inflight' = 1
                    /\ requested' =
                          Append(requested, ExtsloadSlots(extsloadArgs(call, chunkStart')))
                    /\ ret' = ret
               ELSE /\ pc' = "done"
                    /\ calls' = calls
                    /\ inflight' = 0
                    /\ requested' = requested
                    /\ ret' = Some(results')
       ELSE /\ pc' = "done"
            /\ ret' = Some(returnValue(call, words))
            /\ inflight' = 0
            /\ UNCHANGED <<chunkStart, results, calls, requested>>
    /\ UNCHANGED <<storage, call, stale>>
    /\ UNCHANGED <<decodeVars, playerVars, cardVars, uiVars>>

\* readContractBalanced returns
ExtsloadBalancedReturn ==
    /\ pc = "extsloadBalanced"
    /\ \E resp \in ExtsloadResponses(extsloadArgs(call, chunkStart)) :
          Served("readContractBalanced", resp, wordsOf(call, chunkStart, resp))

\* readContractBalanced throws: readExtsload calls client.readContract
ExtsloadBalancedThrow ==
    /\ pc = "extsloadBalanced"
    /\ pc' = "extsloadClient"
    /\ calls' = [ calls EXCEPT !.readContract = @ + 1 ]
    /\ inflight' = 1
    /\ UNCHANGED <<storage, call, chunkStart, results, stale, last, ret, requested>>
    /\ UNCHANGED <<decodeVars, playerVars, cardVars, uiVars>>

\* client.readContract returns
ExtsloadClientReturn ==
    /\ pc = "extsloadClient"
    /\ \E resp \in ExtsloadResponses(extsloadArgs(call, chunkStart)) :
          Served("readContract", resp, wordsOf(call, chunkStart, resp))

\* a plausible slip: both per-slot rounds started at once instead of in turn
ExtsloadClientThrow_race ==
    /\ pc = "extsloadClient"
    /\ pc' = "storageBalanced"
    /\ calls' = [ calls EXCEPT !.readStorageSlots = @ + 1,
                               !.getStorageAtBalanced = @ \o fallbackSlots(call, chunkStart),
                               !.getStorageAt = @ \o fallbackSlots(call, chunkStart) ]
    /\ inflight' = 2 * Len(fallbackSlots(call, chunkStart))
    /\ UNCHANGED <<storage, call, chunkStart, results, stale, last, ret, requested>>
    /\ UNCHANGED <<decodeVars, playerVars, cardVars, uiVars>>

\* client.readContract throws: readExtsload throws, the operation's catch calls
\* readStorageSlots, which issues one getStorageAtBalanced per slot
ExtsloadClientThrow ==
    /\ pc = "extsloadClient"
    /\ pc' = "storageBalanced"
    /\ calls' = [ calls EXCEPT !.readStorageSlots = @ + 1,
                               !.getStorageAtBalanced = @ \o fallbackSlots(call, chunkStart) ]
    /\ inflight' = Len(fallbackSlots(call, chunkStart))
    /\ UNCHANGED <<storage, call, chunkStart, results, stale, last, ret, requested>>
    /\ UNCHANGED <<decodeVars, playerVars, cardVars, uiVars>>

\* every getStorageAtBalanced call has returned: Promise.all resolves
StorageBalancedReturn ==
    /\ pc = "storageBalanced"
    /\ \E resp \in StorageResponses(fallbackSlots(call, chunkStart)) :
          Served("getStorageAtBalanced", resp, wordsOf(call, chunkStart, storageValues(resp)))

\* a plausible slip: the balanced round is tried again before the client round
StorageBalancedReject_retry ==
    /\ pc = "storageBalanced"
    /\ pc' = IF Len(calls.getStorageAtBalanced) > Len(fallbackSlots(call, chunkStart))
             THEN "storageClient" ELSE "storageBalanced"
    /\ calls' = IF pc' = "storageClient"
                THEN [ calls EXCEPT !.getStorageAt = @ \o fallbackSlots(call, chunkStart) ]
                ELSE [ calls EXCEPT !.getStorageAtBalanced = @ \o fallbackSlots(call, chunkStart) ]
    /\ stale' = stale + (inflight - 1)
    /\ inflight' = Len(fallbackSlots(call, chunkStart))
    /\ UNCHANGED <<storage, call, chunkStart, results, last, ret, requested>>
    /\ UNCHANGED <<decodeVars, playerVars, cardVars, uiVars>>

\* one getStorageAtBalanced call throws: Promise.all rejects while the other
\* calls are still outstanding, and the catch issues one client.getStorageAt
\* per slot
StorageBalancedReject ==
    /\ pc = "storageBalanced"
    /\ pc' = "storageClient"
    /\ calls' = [ calls EXCEPT !.getStorageAt = @ \o fallbackSlots(call, chunkStart) ]
    /\ stale' = stale + (inflight - 1)
    /\ inflight' = Len(fallbackSlots(call, chunkStart))
    /\ UNCHANGED <<storage, call, chunkStart, results, last, ret, requested>>
    /\ UNCHANGED <<decodeVars, playerVars, cardVars, uiVars>>

\* every client.getStorageAt call has returned: Promise.all resolves
StorageClientReturn ==
    /\ pc = "storageClient"
    /\ \E resp \in StorageResponses(fallbackSlots(call, chunkStart)) :
          Served("getStorageAt", resp, wordsOf(call, chunkStart, storageValues(resp)))

\* a plausible slip: the last failure is swallowed and zero words are decoded
StorageClientReject_swallow ==
    /\ pc = "storageClient"
    /\ pc' = "done"
    /\ ret' = Some(IF call.op = "readGameDataBatch" THEN results
                   ELSE returnValue(call, [ k \in 1 .. 3 |-> {} ]))
    /\ stale' = stale + (inflight - 1)
    /\ inflight' = 0
    /\ UNCHANGED <<storage, call, chunkStart, results, calls, last, requested>>
    /\ UNCHANGED <<decodeVars, playerVars, cardVars, uiVars>>

\* one client.getStorageAt call throws: Promise.all rejects, readStorageSlots
\* throws and so does the operation
StorageClientReject ==
    /\ pc = "storageClient"
    /\ pc' = "failed"
    /\ stale' = stale + (inflight - 1)
    /\ inflight' = 0
    /\ UNCHANGED <<storage, call, chunkStart, results, calls, last, ret, requested>>
    /\ UNCHANGED <<decodeVars, playerVars, cardVars, uiVars>>

\* a call left outstanding by a rejected Promise.all settles; its result is dropped
StaleSettle ==
    /\ stale > 0
    /\ stale' = stale - 1
    /\ UNCHANGED <<storage, call, pc, chunkStart, results, calls, inflight, last, ret, requested>>
    /\ UNCHANGED <<decodeVars, playerVars, cardVars, uiVars>>

Next ==
    \/ Invoke
    \/ ExtsloadBalancedReturn
    \/ ExtsloadBalancedThrow
    \/ ExtsloadClientReturn
    \/ ExtsloadClientThrow
    \/ StorageBalancedReturn
    \/ StorageBalancedReject
    \/ StorageClientReturn
    \/ StorageClientReject
    \/ StaleSettle

Spec == ReadInit /\ [][Next]_vars

\* ------------------------------------------------------------------------
\* The decoder applied to packed words
\* ------------------------------------------------------------------------

\* no read operation is under way
NoRead ==
    /\ storage = EmptyMap
    /\ pc = "idle"
    /\ chunkStart = 0
    /\ results = EmptyMap
    /\ calls = NoCalls
    /\ inflight = 0
    /\ stale = 0
    /\ last = <<>>
    /\ ret = None
    /\ requested = <<>>

\* words packed from field values, to be handed to decodeGameData
DecodeGameInit ==
    /\ call = MkCall("decodeGameData", 0, 0, <<>>, 0)
    /\ packed \in GameInputs
    /\ raw0 = PackWord0(packed)
    /\ raw1 = PackWord1(packed)
    /\ view = <<>>
    /\ NoPlayerWords
    /\ NoHandWords

\* words packed from field values, to be handed to decodePlayerData
DecodePlayerInit ==
    /\ call = MkCall("decodePlayerData", 0, 0, <<>>, 0)
    /\ playerPacked \in PlayerInputs
    /\ playerWords = << PackPlayerWord0(playerPacked), playerPacked.hand0, playerPacked.hand1 >>
    /\ player = <<>>
    /\ NoGameWords
    /\ NoHandWords

\* a deck map and two clear words, to be handed to the deck-map functions
DecodeHandInit ==
    /\ call = MkCall("decodeHandCards", 0, 0, <<>>, 0)
    /\ handArgs \in HandInputs
    /\ deckShape = <<>>
    /\ cardIndexes = <<>>
    /\ handCards = <<>>
    /\ NoGameWords
    /\ NoPlayerWords

DecodeInit ==
    /\ NoRead
    /\ flip = <<>>
    /\ NoPage
    /\ NoStore
    /\ NoReveal
    /\ NoFeed
    /\ \/ DecodeGameInit
       \/ DecodePlayerInit
       \/ DecodeHandInit

\* decodeGameData(raw0, raw1)
DecodeGame ==
    /\ call.op = "decodeGameData"
    /\ view = <<>>
    /\ view' = << decodeGameData(raw0, raw1) >>
    /\ UNCHANGED <<packed, raw0, raw1, flip>>
    /\ UNCHANGED <<readVars, playerVars, cardVars, uiVars>>

\* one bit of the first word changes in storage and the words are decoded again
FlipWord0(i) ==
    /\ call.op = "decodeGameData"
    /\ view # <<>>
    /\ flip = <<>>
    /\ packed \in FlipBases
    /\ raw0' = Toggle(raw0, i)
    /\ flip' = <<0, i>>
    /\ view' = << decodeGameData(raw0', raw1) >>
    /\ UNCHANGED <<packed, raw1>>
    /\ UNCHANGED <<readVars, playerVars, cardVars, uiVars>>

\* one bit of the second word changes in storage and the words are decoded again
FlipWord1(i) ==
    /\ call.op = "decodeGameData"
    /\ view # <<>>
    /\ flip = <<>>
    /\ packed \in FlipBases
    /\ raw1' = Toggle(raw1, i)
    /\ flip' = <<1, i>>
    /\ view' = << decodeGameData(raw0, raw1') >>
    /\ UNCHANGED <<packed, raw0>>
    /\ UNCHANGED <<readVars, playerVars, cardVars, uiVars>>

\* decodePlayerData(raw0, raw1, raw2) on the three words
DecodePlayer ==
    /\ call.op = "decodePlayerData"
    /\ player = <<>>
    /\ player' = << decodePlayerData(playerWords[1], playerWords[2], playerWords[3]) >>
    /\ UNCHANGED <<playerPacked, playerWords>>
    /\ UNCHANGED <<decodeVars, readVars, cardVars, uiVars>>

\* one bit of word w (0, 1 or 2) of the player record changes in storage and
\* the words are decoded again
FlipPlayerWord(w, i) ==
    /\ call.op = "decodePlayerData"
    /\ player # <<>>
    /\ flip = <<>>
    /\ playerPacked \in PlayerFlipBases
    /\ playerWords' = [ playerWords EXCEPT ![w + 1] = Toggle(@, i) ]
    /\ flip' = <<w, i>>
    /\ player' = << decodePlayerData(playerWords'[1], playerWords'[2], playerWords'[3]) >>
    /\ UNCHANGED <<packed, raw0, raw1, view, playerPacked>>
    /\ UNCHANGED <<readVars, cardVars, uiVars>>

\* decodeDeckMap(deckMap)
DecodeDeckMap ==
    /\ call.op = "decodeHandCards"
    /\ deckShape = <<>>
    /\ deckShape' = << decodeDeckMap(handArgs.deckMap) >>
    /\ UNCHANGED <<handArgs, cardIndexes, handCards>>
    /\ UNCHANGED <<decodeVars, readVars, playerVars, uiVars>>

\* deckMapToIndexes(deckMap, maxCards)
DeckMapToIndexes ==
    /\ call.op = "decodeHandCards"
    /\ cardIndexes = <<>>
    /\ cardIndexes' = << deckMapToIndexes(handArgs.deckMap, handArgs.maxCards) >>
    /\ UNCHANGED <<handArgs, deckShape, handCards>>
    /\ UNCHANGED <<decodeVars, readVars, playerVars, uiVars>>

\* decodeHandCards(deckMap, hand0, hand1)
DecodeHandCards ==
    /\ call.op = "decodeHandCards"
    /\ handCards = <<>>
    /\ handCards' = << decodeHandCards(handArgs.deckMap, handArgs.hand0, handArgs.hand1) >>
    /\ UNCHANGED <<handArgs, deckShape, cardIndexes>>
    /\ UNCHANGED <<decodeVars, readVars, playerVars, uiVars>>

DecodeNext ==
    \/ DecodeGame
    \/ \E i \in WordBits : FlipWord0(i)
    \/ \E i \in WordBits : FlipWord1(i)
    \/ DecodePlayer
    \/ \E w \in 0 .. 2, i \in WordBits : FlipPlayerWord(w, i)
    \/ DecodeDeckMap
    \/ DeckMapToIndexes
    \/ DecodeHandCards

SpecDecode == DecodeInit /\ [][DecodeNext]_vars

\* ------------------------------------------------------------------------
\* The game page: commit, execute, draw and break, with the commitment poll
\* and the proof cache effect.  A handler runs to its first await in one
\* step; each await is settled by a later step, with the values the handler
\* closed over when it was called.  The page awaits one handler's call at a
\* time, and a call the wallet has to sign resolves only if an account was
\* connected when it was made.
\* ------------------------------------------------------------------------

coreVars == <<decodeVars, readVars, playerVars, cardVars, feedVars>>

\* the account of the wallet, as the wallet writes it
Wallet == << "A", "b" >>

\* the indexes of the cards the player picks from
CardIndexSamples == { 1 }

\* a game not started, started with seat 0 to move, started with seat 1 to move
GameSamples ==
    { [ status |-> 0, playerTurnIdx |-> 0 ], [ status |-> 1, playerTurnIdx |-> 0 ],
      [ status |-> 1, playerTurnIdx |-> 1 ] }

\* a PlayerRow of the players query
MkPlayerRow(index, addr, pendingPick, hand0, hand1, deckMap) ==
    [ index |-> index, addr |-> addr, pendingAction |-> pendingPick,
      hand0 |-> hand0, hand1 |-> hand1, deckMap |-> deckMap ]

\* the rows of a two-seat game: the wallet's account (as the chain writes it)
\* in seat 0, with or without a pending pick
PlayersSamples ==
    { << MkPlayerRow(0, << "a", "B" >>, pick, { 0 }, { 1 }, { 2, 3 }),
              MkPlayerRow(1, << "c", "C" >>, 0, {}, {}, {}) >> : pick \in { 0, 2 } }

\* `${gameKey}:${address}`
loadKey == << gameKey, address[1] >>

\* a PendingCommit as savePendingCommit stores it
MkPendingCommit(proofData, cardIndex, commitAction, updatedAt) ==
    [ proofData |-> proofData, cardIndex |-> cardIndex, action |-> commitAction,
      updatedAt |-> updatedAt ]

\* the proof handleCommit encodes for a committed card index
MkProof(cardIndex) == << "proof", cardIndex >>

myHandLength == IF myHand = <<>> THEN 0 ELSE Len(myHand[1])

\* no handler's call is awaited
NoneAwaited ==
    /\ commitMove = <<>>
    /\ decrypting = <<>>
    /\ executeMove = <<>>
    /\ drawMove = <<>>
    /\ breakCommitment = <<>>

\* the wallet connects
Connect ==
    /\ address = <<>>
    /\ address' = << Wallet >>
    /\ UNCHANGED <<chainCommitment, commitmentQuery, gameQuery, playersQuery, fheStatus,
                   action, pendingProofData, pendingCardIndex, pendingAction, isDecrypting,
                   proofLoadedRef, commitMove, decrypting, executeMove, drawMove,
                   breakCommitment>>
    /\ UNCHANGED <<coreVars, executeToast, storeVars, revealVars>>

\* the wallet disconnects
Disconnect ==
    /\ address # <<>>
    /\ address' = <<>>
    /\ UNCHANGED <<chainCommitment, commitmentQuery, gameQuery, playersQuery, fheStatus,
                   action, pendingProofData, pendingCardIndex, pendingAction, isDecrypting,
                   proofLoadedRef, commitMove, decrypting, executeMove, drawMove,
                   breakCommitment>>
    /\ UNCHANGED <<coreVars, executeToast, storeVars, revealVars>>

\* the commitment query (first fetch, or the 10-second refetch) answers with
\* the hash that is on chain
FetchCommitment ==
    /\ commitmentQuery' = [ data |-> << chainCommitment >>, isLoading |-> FALSE ]
    /\ UNCHANGED <<address, chainCommitment, gameQuery, playersQuery, fheStatus,
                   action, pendingProofData, pendingCardIndex, pendingAction, isDecrypting,
                   proofLoadedRef, commitMove, decrypting, executeMove, drawMove,
                   breakCommitment>>
    /\ UNCHANGED <<coreVars, executeToast, storeVars, revealVars>>

\* the commitment query's fetch fails: the data stays as it was (undefined, so
\* the default 0n, when no fetch has answered yet)
FetchCommitmentFails ==
    /\ commitmentQuery' = [ commitmentQuery EXCEPT !.isLoading = FALSE ]
    /\ UNCHANGED <<address, chainCommitment, gameQuery, playersQuery, fheStatus,
                   action, pendingProofData, pendingCardIndex, pendingAction, isDecrypting,
                   proofLoadedRef, commitMove, decrypting, executeMove, drawMove,
                   breakCommitment>>
    /\ UNCHANGED <<coreVars, executeToast, storeVars, revealVars>>

\* the game-data query answers
FetchGame ==
    /\ \E g \in GameSamples : gameQuery' = << g >>
    /\ UNCHANGED <<address, chainCommitment, commitmentQuery, playersQuery, fheStatus,
                   action, pendingProofData, pendingCardIndex, pendingAction, isDecrypting,
                   proofLoadedRef, commitMove, decrypting, executeMove, drawMove,
                   breakCommitment>>
    /\ UNCHANGED <<coreVars, executeToast, storeVars, revealVars>>

\* the players query answers
FetchPlayers ==
    /\ gameQuery # <<>>
    /\ playersQuery' \in PlayersSamples
    /\ UNCHANGED <<address, chainCommitment, commitmentQuery, gameQuery, fheStatus,
                   action, pendingProofData, pendingCardIndex, pendingAction, isDecrypting,
                   proofLoadedRef, commitMove, decrypting, executeMove, drawMove,
                   breakCommitment>>
    /\ UNCHANGED <<coreVars, executeToast, storeVars, revealVars>>

\* the FHE relayer hook becomes ready
FheStatusChanges ==
    /\ fheStatus = "loading"
    /\ fheStatus' = "ready"
    /\ UNCHANGED <<address, chainCommitment, commitmentQuery, gameQuery, playersQuery,
                   action, pendingProofData, pendingCardIndex, pendingAction, isDecrypting,
                   proofLoadedRef, commitMove, decrypting, executeMove, drawMove,
                   breakCommitment>>
    /\ UNCHANGED <<coreVars, executeToast, storeVars, revealVars>>

\* the player selects Play, Defend or Draw
SetAction ==
    /\ action' \in (0 .. 2) \ { action }
    /\ UNCHANGED <<address, chainCommitment, commitmentQuery, gameQuery, playersQuery,
                   fheStatus, pendingProofData, pendingCardIndex, pendingAction,
                   isDecrypting, proofLoadedRef, commitMove, decrypting, executeMove,
                   drawMove, breakCommitment>>
    /\ UNCHANGED <<coreVars, executeToast, storeVars, revealVars>>

\* the proof cache effect while a commitment is observed: the cached proof is
\* loaded once per `${gameKey}:${address}`, unless a proof is in state
LoadCachedProof ==
    /\ IF proofLoadedRef # << loadKey >> /\ pendingProofData = <<>>
       THEN LET cached == loadPendingCommit(localStorage, chainId, gameKey, address)
            IN  /\ IF cached # <<>>
                   THEN /\ pendingProofData' = << cached[1].proofData >>
                        /\ pendingCardIndex' = << cached[1].cardIndex >>
                        /\ pendingAction' = << cached[1].action >>
                   ELSE UNCHANGED <<pendingProofData, pendingCardIndex, pendingAction>>
                /\ proofLoadedRef' = << loadKey >>
       ELSE UNCHANGED <<pendingProofData, pendingCardIndex, pendingAction, proofLoadedRef>>
    /\ UNCHANGED localStorage

\* (a slip: the cached pending commit is left in the store)
ClearStaleProof_keepscache ==
    /\ proofLoadedRef' = IF proofLoadedRef = << loadKey >> THEN <<>> ELSE proofLoadedRef
    /\ pendingProofData' = <<>>
    /\ pendingCardIndex' = <<>>
    /\ pendingAction' = <<>>
    /\ UNCHANGED localStorage

\* the proof cache effect while no commitment is observed
ClearStaleProof ==
    /\ proofLoadedRef' = IF proofLoadedRef = << loadKey >> THEN <<>> ELSE proofLoadedRef
    /\ pendingProofData' = <<>>
    /\ pendingCardIndex' = <<>>
    /\ pendingAction' = <<>>
    /\ localStorage' = clearPendingCommit(localStorage, chainId, gameKey, address)

\* the proof cache effect, run by React after a render in which one of its
\* dependencies changed (run again with unchanged dependencies it changes
\* nothing, so the step is left enabled in every state)
ProofCacheEffect ==
    /\ address # <<>>
    /\ ~loadingCommitment
    /\ IF hasCommittedOnChain THEN LoadCachedProof ELSE ClearStaleProof
    /\ UNCHANGED <<address, chainCommitment, commitmentQuery, gameQuery, playersQuery,
                   fheStatus, action, isDecrypting, commitMove, decrypting, executeMove,
                   drawMove, breakCommitment, now>>
    /\ UNCHANGED <<coreVars, executeToast, revealVars>>

\* handleCommit(indexOverride, actionOverride), up to its await of
\* commitMove.mutateAsync (the call-card check of the optional rule
\* enforcement, a further refusal, is left out)
handleCommit(index, commitAction, via) ==
    /\ commitAction # 2
    /\ ~mustResolvePending
    /\ fheStatus = "ready"
    /\ NoneAwaited
    /\ pendingProofData' = <<>>
    /\ pendingCardIndex' = <<>>
    /\ pendingAction' = <<>>
    /\ isDecrypting' = TRUE
    /\ commitMove' = << [ via |-> via, action |-> commitAction, index |-> index,
                          address |-> address ] >>
    /\ UNCHANGED <<address, chainCommitment, commitmentQuery, gameQuery, playersQuery,
                   fheStatus, action, proofLoadedRef, decrypting, executeMove, drawMove,
                   breakCommitment>>
    /\ UNCHANGED <<coreVars, executeToast, storeVars, revealVars>>

\* handleCommit called by the commit button of the technical view
HandleCommit == \E index \in CardIndexSamples : handleCommit(index, action, "handleCommit")

\* handleCommitCard(index), which ends by calling handleCommit
HandleCommitCard ==
    \E index \in CardIndexSamples :
        /\ canCommitSelected
        /\ action # 2
        /\ handleCommit(index, action, "handleCommitCard")

\* commitMove.mutateAsync resolves with a receipt that holds MoveCommitted: the
\* move is committed on chain, and handleCommit awaits publicDecrypt
CommitMoveSucceeds ==
    /\ commitMove # <<>>
    /\ commitMove[1].address # <<>>
    /\ chainCommitment' = 1
    /\ decrypting' = commitMove
    /\ commitMove' = <<>>
    /\ UNCHANGED <<address, commitmentQuery, gameQuery, playersQuery, fheStatus, action,
                   pendingProofData, pendingCardIndex, pendingAction, isDecrypting,
                   proofLoadedRef, executeMove, drawMove, breakCommitment>>
    /\ UNCHANGED <<coreVars, executeToast, storeVars, revealVars>>

\* commitMove.mutateAsync rejects (or the event is missing): catch and finally
CommitMoveFails ==
    /\ commitMove # <<>>
    /\ commitMove' = <<>>
    /\ isDecrypting' = FALSE
    /\ UNCHANGED <<address, chainCommitment, commitmentQuery, gameQuery, playersQuery,
                   fheStatus, action, pendingProofData, pendingCardIndex, pendingAction,
                   proofLoadedRef, decrypting, executeMove, drawMove, breakCommitment>>
    /\ UNCHANGED <<coreVars, executeToast, storeVars, revealVars>>

\* handleRegenerateProof, up to its await of getLogs and publicDecrypt
HandleRegenerateProof ==
    /\ address # <<>>
    /\ isMyTurn
    /\ hasCommittedOnChain
    /\ fheStatus = "ready"
    /\ NoneAwaited
    /\ isDecrypting' = TRUE
    /\ \E index \in CardIndexSamples :
          decrypting' = << [ via |-> "handleRegenerateProof", action |-> action,
                             index |-> index, address |-> address ] >>
    /\ UNCHANGED <<address, chainCommitment, commitmentQuery, gameQuery, playersQuery,
                   fheStatus, action, pendingProofData, pendingCardIndex, pendingAction,
                   proofLoadedRef, commitMove, executeMove, drawMove, breakCommitment>>
    /\ UNCHANGED <<coreVars, executeToast, storeVars, revealVars>>

\* publicDecrypt resolves: the proof is encoded, set in state and saved
PublicDecryptSucceeds ==
    /\ decrypting # <<>>
    /\ LET c == decrypting[1]
           proofData == MkProof(c.index)
       IN  /\ pendingProofData' = << proofData >>
           /\ pendingCardIndex' = << c.index >>
           /\ pendingAction' = << c.action >>
           /\ localStorage' =
                savePendingCommit(localStorage, chainId, gameKey, c.address,
                                  MkPendingCommit(proofData, c.index, c.action, now))
    /\ isDecrypting' = FALSE
    /\ decrypting' = <<>>
    /\ UNCHANGED <<address, chainCommitment, commitmentQuery, gameQuery, playersQuery,
                   fheStatus, action, proofLoadedRef, commitMove, executeMove, drawMove,
                   breakCommitment, now>>
    /\ UNCHANGED <<coreVars, executeToast, revealVars>>

\* publicDecrypt rejects (or the committed index is out of range)
PublicDecryptFails ==
    /\ decrypting # <<>>
    /\ isDecrypting' = FALSE
    /\ decrypting' = <<>>
    /\ UNCHANGED <<address, chainCommitment, commitmentQuery, gameQuery, playersQuery,
                   fheStatus, action, pendingProofData, pendingCardIndex, pendingAction,
                   proofLoadedRef, commitMove, executeMove, drawMove, breakCommitment>>
    /\ UNCHANGED <<coreVars, executeToast, storeVars, revealVars>>

\* handleExecute(actionOverride) as the views call it, up to its await
HandleExecute ==
    /\ NoneAwaited
    /\ LET executeAction == IF pendingAction # <<>> THEN pendingAction[1] ELSE action
           needsProof == executeAction = 0 \/ executeAction = 1
       IN  /\ ~(needsProof /\ pendingProofData = <<>>)
           /\ executeMove' = << [ action |-> executeAction,
                                  proofData |-> IF needsProof THEN pendingProofData
                                                ELSE << "0x" >>,
                                  address |-> address,
                                  handLength |-> myHandLength ] >>
    /\ UNCHANGED <<address, chainCommitment, commitmentQuery, gameQuery, playersQuery,
                   fheStatus, action, pendingProofData, pendingCardIndex, pendingAction,
                   isDecrypting, proofLoadedRef, commitMove, decrypting, drawMove,
                   breakCommitment>>
    /\ UNCHANGED <<coreVars, executeToast, storeVars, revealVars>>

\* the hand is dropped after a move: if (myHand?.length) { setMyHand(null); ... }
dropHand(handLength) ==
    IF handLength > 0
    THEN /\ myHand' = <<>>
         /\ handStale' = TRUE
    ELSE UNCHANGED <<myHand, handStale>>

\* executeMove.mutateAsync resolves: the move is executed, which clears the
\* game's commitment on chain when it was a Play or a Defend
ExecuteSucceeds ==
    /\ executeMove # <<>>
    /\ executeMove[1].address # <<>>
    /\ pendingProofData' = <<>>
    /\ pendingCardIndex' = <<>>
    /\ pendingAction' = <<>>
    /\ localStorage' = clearPendingCommit(localStorage, chainId, gameKey,
                                          executeMove[1].address)
    /\ dropHand(executeMove[1].handLength)
    /\ chainCommitment' = IF executeMove[1].action \in { 0, 1 } THEN 0
                          ELSE chainCommitment
    /\ executeMove' = <<>>
    /\ executeToast' = "Execute sent"
    /\ UNCHANGED <<address, commitmentQuery, gameQuery, playersQuery, fheStatus, action,
                   isDecrypting, proofLoadedRef, commitMove, decrypting, drawMove,
                   breakCommitment, now>>
    /\ UNCHANGED <<lastHandSignature, isRevealingHand, burnerAddress, autoRevealRef,
                   autoRevealTimer, revealCall, effectDeps>>
    /\ UNCHANGED coreVars

\* (a slip: the pending state is cleared in a finally block)
ExecuteFails_clears ==
    /\ executeMove # <<>>
    /\ executeMove' = <<>>
    /\ executeToast' = "Execute failed"
    /\ pendingProofData' = <<>>
    /\ pendingCardIndex' = <<>>
    /\ pendingAction' = <<>>
    /\ localStorage' = clearPendingCommit(localStorage, chainId, gameKey,
                                          executeMove[1].address)
    /\ UNCHANGED <<address, chainCommitment, commitmentQuery, gameQuery, playersQuery,
                   fheStatus, action, isDecrypting, proofLoadedRef, commitMove, decrypting,
                   drawMove, breakCommitment, now>>
    /\ UNCHANGED <<coreVars, revealVars>>

\* executeMove.mutateAsync rejects: the catch only shows a toast
ExecuteFails ==
    /\ executeMove # <<>>
    /\ executeMove' = <<>>
    /\ executeToast' = "Execute failed"
    /\ UNCHANGED <<address, chainCommitment, commitmentQuery, gameQuery, playersQuery,
                   fheStatus, action, pendingProofData, pendingCardIndex, pendingAction,
                   isDecrypting, proofLoadedRef, commitMove, decrypting, drawMove,
                   breakCommitment>>
    /\ UNCHANGED <<coreVars, storeVars, revealVars>>

\* handleDrawFromMarket, up to its await of executeMove.mutateAsync
HandleDrawFromMarket ==
    /\ isConnected
    /\ ~hasPendingCommit
    /\ canPlayTurn
    /\ NoneAwaited
    /\ drawMove' = << [ action |-> 2, proofData |-> << "0x" >>,
                        handLength |-> myHandLength ] >>
    /\ UNCHANGED <<address, chainCommitment, commitmentQuery, gameQuery, playersQuery,
                   fheStatus, action, pendingProofData, pendingCardIndex, pendingAction,
                   isDecrypting, proofLoadedRef, commitMove, decrypting, executeMove,
                   breakCommitment>>
    /\ UNCHANGED <<coreVars, executeToast, storeVars, revealVars>>

\* the draw's executeMove.mutateAsync resolves
DrawSucceeds ==
    /\ drawMove # <<>>
    /\ dropHand(drawMove[1].handLength)
    /\ drawMove' = <<>>
    /\ UNCHANGED <<address, chainCommitment, commitmentQuery, gameQuery, playersQuery,
                   fheStatus, action, pendingProofData, pendingCardIndex, pendingAction,
                   isDecrypting, proofLoadedRef, commitMove, decrypting, executeMove,
                   breakCommitment>>
    /\ UNCHANGED <<lastHandSignature, isRevealingHand, burnerAddress, autoRevealRef,
                   autoRevealTimer, revealCall, effectDeps>>
    /\ UNCHANGED <<coreVars, executeToast, storeVars>>

\* the draw's executeMove.mutateAsync rejects
DrawFails ==
    /\ drawMove # <<>>
    /\ drawMove' = <<>>
    /\ UNCHANGED <<address, chainCommitment, commitmentQuery, gameQuery, playersQuery,
                   fheStatus, action, pendingProofData, pendingCardIndex, pendingAction,
                   isDecrypting, proofLoadedRef, commitMove, decrypting, executeMove,
                   breakCommitment>>
    /\ UNCHANGED <<coreVars, executeToast, storeVars, revealVars>>

\* handleBreakCommitment, up to its await of breakCommitment.mutateAsync
HandleBreakCommitment ==
    /\ isConnected
    /\ NoneAwaited
    /\ breakCommitment' = << [ address |-> address ] >>
    /\ UNCHANGED <<address, chainCommitment, commitmentQuery, gameQuery, playersQuery,
                   fheStatus, action, pendingProofData, pendingCardIndex, pendingAction,
                   isDecrypting, proofLoadedRef, commitMove, decrypting, executeMove,
                   drawMove>>
    /\ UNCHANGED <<coreVars, executeToast, storeVars, revealVars>>

\* breakCommitment.mutateAsync resolves: the commitment is cleared on chain
BreakSucceeds ==
    /\ breakCommitment # <<>>
    /\ pendingProofData' = <<>>
    /\ pendingCardIndex' = <<>>
    /\ pendingAction' = <<>>
    /\ localStorage' = clearPendingCommit(localStorage, chainId, gameKey,
                                          breakCommitment[1].address)
    /\ chainCommitment' = 0
    /\ breakCommitment' = <<>>
    /\ UNCHANGED <<address, commitmentQuery, gameQuery, playersQuery, fheStatus, action,
                   isDecrypting, proofLoadedRef, commitMove, decrypting, executeMove,
                   drawMove, now>>
    /\ UNCHANGED <<coreVars, executeToast, revealVars>>

\* breakCommitment.mutateAsync rejects
BreakFails ==
    /\ breakCommitment # <<>>
    /\ breakCommitment' = <<>>
    /\ UNCHANGED <<address, chainCommitment, commitmentQuery, gameQuery, playersQuery,
                   fheStatus, action, pendingProofData, pendingCardIndex, pendingAction,
                   isDecrypting, proofLoadedRef, commitMove, decrypting, executeMove,
                   drawMove>>
    /\ UNCHANGED <<coreVars, executeToast, storeVars, revealVars>>

\* a pending commit saved by an earlier visit of the page, or nothing
StoredCommits ==
    { EmptyMap }
    \cup { savePendingCommit(EmptyMap, chainId, gameKey, << Wallet >>,
                             MkPendingCommit(MkProof(i), i, 0, 0)) : i \in { 1 } }

PageInit ==
    /\ NoRead
    /\ call = MkCall("gamePage", 0, 0, <<>>, 0)
    /\ flip = <<>>
    /\ NoGameWords
    /\ NoPlayerWords
    /\ NoHandWords
    /\ NoReveal
    /\ NoFeed
    /\ address \in { <<>>, << Wallet >> }
    /\ chainCommitment \in { 0, 1 }
    /\ commitmentQuery = [ data |-> <<>>, isLoading |-> TRUE ]
    /\ gameQuery = <<>>
    /\ playersQuery = <<>>
    /\ fheStatus = "loading"
    /\ action = 0
    /\ pendingProofData = <<>>
    /\ pendingCardIndex = <<>>
    /\ pendingAction = <<>>
    /\ isDecrypting = FALSE
    /\ proofLoadedRef = <<>>
    /\ commitMove = <<>>
    /\ decrypting = <<>>
    /\ executeMove = <<>>
    /\ drawMove = <<>>
    /\ breakCommitment = <<>>
    /\ executeToast = ""
    /\ localStorage \in StoredCommits
    /\ now = 0

PageNext ==
    \/ Connect
    \/ Disconnect
    \/ FetchCommitment
    \/ FetchCommitmentFails
    \/ FetchGame
    \/ FetchPlayers
    \/ FheStatusChanges
    \/ SetAction
    \/ ProofCacheEffect
    \/ HandleCommit
    \/ HandleCommitCard
    \/ CommitMoveSucceeds
    \/ CommitMoveFails
    \/ HandleRegenerateProof
    \/ PublicDecryptSucceeds
    \/ PublicDecryptFails
    \/ HandleExecute
    \/ ExecuteSucceeds
    \/ ExecuteFails
    \/ HandleDrawFromMarket
    \/ DrawSucceeds
    \/ DrawFails
    \/ HandleBreakCommitment
    \/ BreakSucceeds
    \/ BreakFails

\* React runs a pending effect, the query client keeps polling, and every
\* awaited call settles
SpecPage ==
    /\ PageInit
    /\ [][PageNext]_vars
    /\ WF_vars(ProofCacheEffect)
    /\ WF_vars(FetchCommitment)
    /\ WF_vars(CommitMoveSucceeds \/ CommitMoveFails)
    /\ WF_vars(PublicDecryptSucceeds \/ PublicDecryptFails)
    /\ WF_vars(ExecuteSucceeds \/ ExecuteFails)
    /\ WF_vars(BreakSucceeds \/ BreakFails)

\* ------------------------------------------------------------------------
\* The game page: the hand cache, the hand effects and handleRevealHand
\* ------------------------------------------------------------------------

HAND_CACHE_PREFIX == "whot-hand-cache"

\* handCache.buildKey
handKey(chain, game, addr) == << HAND_CACHE_PREFIX, chain, game, toLowerCase(addr) >>

\* 24 * 60 * 60 * 1000
HAND_CACHE_TTL_MS == 24 * 60 * 60 * 1000

\* the decimal digits of a Number, most significant first
RECURSIVE decimalDigits(_)
decimalDigits(n) == IF n < 10 THEN << n >> ELSE Append(decimalDigits(n \div 10), n % 10)

\* bigint.toString(), for a bigint below 2^31
bigintToString(value) == decimalDigits(Number(value))

\* the Number a decimal string denotes
RECURSIVE decimalValue(_)
decimalValue(str) ==
    IF str = <<>> THEN 0 ELSE 10 * decimalValue(SubSeq(str, 1, Len(str) - 1)) + str[Len(str)]

\* BigInt(string), for a decimal string below 2^31
parseBigInt(str) == BigInt(decimalValue(str))

\* a CachedHand as saveCachedHand stores it
MkCachedHand(hand0, hand1, clear0, clear1, updatedAt) ==
    [ hand0 |-> hand0, hand1 |-> hand1, clear0 |-> clear0, clear1 |-> clear1,
      updatedAt |-> updatedAt ]

\* (a slip: the age of the entry is not looked at)
loadCachedHand_noexpiry(store, chain, game, addr, time) ==
    IF addr = <<>> THEN [ value |-> <<>>, store |-> store ]
    ELSE LET key == handKey(chain, game, addr[1])
             raw == getItem(store, key)
         IN  IF raw = <<>> THEN [ value |-> <<>>, store |-> store ]
             ELSE IF raw[1].hand0 = <<>> \/ raw[1].hand1 = <<>>
                     \/ raw[1].clear0 = <<>> \/ raw[1].clear1 = <<>>
                  THEN [ value |-> <<>>, store |-> store ]
             ELSE [ value |-> raw, store |-> store ]

\* (a slip: the key is built from the address as given)
loadCachedHand_casesensitive(store, chain, game, addr, time) ==
    IF addr = <<>> THEN [ value |-> <<>>, store |-> store ]
    ELSE LET key == << HAND_CACHE_PREFIX, chain, game, addr[1] >>
             raw == getItem(store, key)
         IN  IF raw = <<>> THEN [ value |-> <<>>, store |-> store ]
             ELSE IF raw[1].hand0 = <<>> \/ raw[1].hand1 = <<>>
                     \/ raw[1].clear0 = <<>> \/ raw[1].clear1 = <<>>
                  THEN [ value |-> <<>>, store |-> store ]
             ELSE IF time - raw[1].updatedAt > HAND_CACHE_TTL_MS
                  THEN [ value |-> <<>>, store |-> removeItem(store, key) ]
             ELSE [ value |-> raw, store |-> store ]

\* loadCachedHand(chainId, gameId, address) at the given time: the value it
\* returns (<<CachedHand>> or <<>> for null) and the store it leaves
loadCachedHand(store, chain, game, addr, time) ==
    IF addr = <<>> THEN [ value |-> <<>>, store |-> store ]
    ELSE LET key == handKey(chain, game, addr[1])
             raw == getItem(store, key)
         IN  IF raw = <<>> THEN [ value |-> <<>>, store |-> store ]
             ELSE IF raw[1].hand0 = <<>> \/ raw[1].hand1 = <<>>
                     \/ raw[1].clear0 = <<>> \/ raw[1].clear1 = <<>>
                  THEN [ value |-> <<>>, store |-> store ]
             ELSE IF time - raw[1].updatedAt > HAND_CACHE_TTL_MS
                  THEN [ value |-> <<>>, store |-> removeItem(store, key) ]
             ELSE [ value |-> raw, store |-> store ]

\* saveCachedHand(chainId, gameId, address, data)
saveCachedHand(store, chain, game, addr, data) ==
    IF addr = <<>> THEN store
    ELSE setItem(store, handKey(chain, game, addr[1]), data)

\* isCacheValid(cache, hand0, hand1)
isCacheValid(cache, hand0, hand1) ==
    cache.hand0 = bigintToString(hand0) /\ cache.hand1 = bigintToString(hand1)

canRevealHand == gameStarted /\ me # <<>> /\ isConnected /\ fheStatus = "ready"

isBurnerConnected ==
    /\ burnerAddress # <<>>
    /\ address # <<>>
    /\ burnerAddress[1] = toLowerCase(address[1])

\* `${hand0}-${hand1}` of a player row
handSignature(row) == << bigintToString(row.hand0), "-", bigintToString(row.hand1) >>

\* <<signature>> of the connected player's hand, or <<>> for null
currentHandSignature == IF me = <<>> THEN <<>> ELSE << handSignature(me[1]) >>

\* the cards of a cached hand for a player row
cachedCards(cached, row) ==
    decodeHandCards(row.deckMap, parseBigInt(cached.clear0), parseBigInt(cached.clear1))

\* the clear word userDecrypt returns for a handle
ClearValueOf(handle) == BigInt(Number(handle) * 257 + 1)

\* the dependency lists of the cached-hand effect, the stale effect and the
\* auto-reveal effect in the current render (handleRevealHand, a useCallback,
\* is a new function whenever address, gameData, me or fheStatus changed)
CurrentDeps ==
    [ cached |-> << address, me, myHandLength >>,
      stale |-> << IF me = <<>> THEN <<>>
                   ELSE << me[1].deckMap, me[1].hand0, me[1].hand1 >>, address >>,
      reveal |-> << handStale, myHandLength, isBurnerConnected, canRevealHand,
                    isRevealingHand, currentHandSignature, lastHandSignature,
                    << address, gameQuery, me, fheStatus >> >> ]

\* the effect has not run yet, or one of its dependencies changed
DepsChanged(effect) == effectDeps = <<>> \/ effectDeps[1][effect] # CurrentDeps[effect]

\* the effects of the current render have run: React runs them before it
\* handles the next event, timer or settled promise
EffectsFlushed == effectDeps = << CurrentDeps >>

\* React runs, after a render, the hand effects whose dependencies changed, in
\* source order: the cached-hand effect, the stale effect and the auto-reveal
\* effect (its cleanup first, which clears the timer of its last run).  The
\* effects read the state of the render; what they set shows in the next.
RunEffects ==
    /\ effectDeps # << CurrentDeps >>
    /\ LET lookup == DepsChanged("cached") /\ address # <<>> /\ me # <<>>
                     /\ myHandLength = 0
           loaded == loadCachedHand(localStorage, chainId, gameKey, address, now)
           hit == lookup /\ loaded.value # <<>>
                  /\ isCacheValid(loaded.value[1], me[1].hand0, me[1].hand1)
           starts == /\ DepsChanged("reveal")
                     /\ isBurnerConnected
                     /\ canRevealHand /\ ~isRevealingHand
                     /\ currentHandSignature # <<>>
                     /\ currentHandSignature # lastHandSignature
                     /\ ~(~handStale /\ myHandLength > 0)
                     /\ ~autoRevealRef
       IN  /\ localStorage' = IF lookup THEN loaded.store ELSE localStorage
           /\ myHand' = IF hit THEN << cachedCards(loaded.value[1], me[1]) >> ELSE myHand
           /\ lastHandSignature' = IF hit THEN currentHandSignature ELSE lastHandSignature
           /\ handStale' = IF DepsChanged("stale") THEN TRUE ELSE handStale
           /\ autoRevealRef' = (autoRevealRef \/ starts)
           /\ autoRevealTimer' =
                IF starts THEN "pending"
                ELSE IF DepsChanged("reveal") /\ autoRevealTimer = "pending" THEN "none"
                ELSE autoRevealTimer
    /\ effectDeps' = << CurrentDeps >>
    /\ UNCHANGED <<isRevealingHand, burnerAddress, revealCall, now>>
    /\ UNCHANGED <<coreVars, pageVars>>

\* handleRevealHand, up to its first await or its return; auto tells the call
\* of the auto-reveal timer (whose finally resets the latch) from the button's
handleRevealHand(auto) ==
    LET loaded == loadCachedHand(localStorage, chainId, gameKey, address, now)
        finished == /\ autoRevealRef' = IF auto THEN FALSE ELSE autoRevealRef
                    /\ autoRevealTimer' = IF auto THEN "none" ELSE autoRevealTimer
    IN  IF gameQuery = <<>> \/ me = <<>> \/ address = <<>>
        THEN /\ finished
             /\ UNCHANGED <<myHand, handStale, lastHandSignature, isRevealingHand,
                            revealCall, localStorage>>
        ELSE IF loaded.value # <<>>
                /\ isCacheValid(loaded.value[1], me[1].hand0, me[1].hand1)
        THEN /\ myHand' = << cachedCards(loaded.value[1], me[1]) >>
             /\ handStale' = FALSE
             /\ lastHandSignature' = currentHandSignature
             /\ localStorage' = loaded.store
             /\ finished
             /\ UNCHANGED <<isRevealingHand, revealCall>>
        ELSE IF fheStatus # "ready"
        THEN /\ localStorage' = loaded.store
             /\ finished
             /\ UNCHANGED <<myHand, handStale, lastHandSignature, isRevealingHand,
                            revealCall>>
        ELSE /\ localStorage' = loaded.store
             /\ isRevealingHand' = TRUE
             /\ revealCall' = << [ auto |-> auto, me |-> me[1], address |-> address ] >>
             /\ autoRevealTimer' = IF auto THEN "running" ELSE autoRevealTimer
             /\ UNCHANGED <<myHand, handStale, lastHandSignature, autoRevealRef>>

\* the auto-reveal timer fires, 600 ms after the effect set it
TimerFires ==
    /\ EffectsFlushed
    /\ autoRevealTimer = "pending"
    /\ revealCall = <<>>
    /\ handleRevealHand(TRUE)
    /\ UNCHANGED <<burnerAddress, effectDeps, now>>
    /\ UNCHANGED <<coreVars, pageVars>>

\* the player presses the reveal button
HandleRevealHand ==
    /\ EffectsFlushed
    /\ revealCall = <<>>
    /\ autoRevealTimer # "running"
    /\ handleRevealHand(FALSE)
    /\ UNCHANGED <<burnerAddress, effectDeps, now>>
    /\ UNCHANGED <<coreVars, pageVars>>

\* userDecrypt resolves: the hand is decoded, shown and cached
RevealSucceeds ==
    /\ EffectsFlushed
    /\ revealCall # <<>>
    /\ LET c == revealCall[1]
           clear0 == ClearValueOf(c.me.hand0)
           clear1 == ClearValueOf(c.me.hand1)
       IN  /\ myHand' = << decodeHandCards(c.me.deckMap, clear0, clear1) >>
           /\ handStale' = FALSE
           /\ lastHandSignature' = << handSignature(c.me) >>
           /\ localStorage' =
                saveCachedHand(localStorage, chainId, gameKey, c.address,
                               MkCachedHand(bigintToString(c.me.hand0),
                                            bigintToString(c.me.hand1),
                                            bigintToString(clear0),
                                            bigintToString(clear1), now))
           /\ autoRevealRef' = IF c.auto THEN FALSE ELSE autoRevealRef
           /\ autoRevealTimer' = IF c.auto THEN "none" ELSE autoRevealTimer
    /\ isRevealingHand' = FALSE
    /\ revealCall' = <<>>
    /\ UNCHANGED <<burnerAddress, effectDeps, now>>
    /\ UNCHANGED <<coreVars, pageVars>>

\* the signature or the decryption rejects: the signature is still recorded
RevealFails ==
    /\ EffectsFlushed
    /\ revealCall # <<>>
    /\ lastHandSignature' = << handSignature(revealCall[1].me) >>
    /\ autoRevealRef' = IF revealCall[1].auto THEN FALSE ELSE autoRevealRef
    /\ autoRevealTimer' = IF revealCall[1].auto THEN "none" ELSE autoRevealTimer
    /\ isRevealingHand' = FALSE
    /\ revealCall' = <<>>
    /\ UNCHANGED <<myHand, handStale, burnerAddress, effectDeps>>
    /\ UNCHANGED <<coreVars, pageVars, storeVars>>

\* the handles of the connected player's hand, before and after a move
HandleSamplesOfHand == { << { 0 }, { 1 } >>, << { 0, 1 }, { 1 } >> }

\* the rows of the players query: the wallet's account in seat 0, holding the
\* cards 0 and 1 of an 8-bit deck
HandRowsSamples ==
    { << MkPlayerRow(0, << "a", "B" >>, 0, h[1], h[2], Shl({ 0, 1 }, 2)) >> :
        h \in HandleSamplesOfHand }

\* the players query answers
FetchHands ==
    /\ EffectsFlushed
    /\ gameQuery # <<>>
    /\ playersQuery' \in HandRowsSamples \ { playersQuery }
    /\ UNCHANGED <<address, chainCommitment, commitmentQuery, gameQuery, fheStatus,
                   action, pendingProofData, pendingCardIndex, pendingAction, isDecrypting,
                   proofLoadedRef, commitMove, decrypting, executeMove, drawMove,
                   breakCommitment, executeToast>>
    /\ UNCHANGED <<coreVars, storeVars, revealVars>>

\* the times the clock is looked at, in milliseconds
TimeSamples == { 0, HAND_CACHE_TTL_MS, HAND_CACHE_TTL_MS + 1 }

\* time passes
Tick ==
    /\ EffectsFlushed
    /\ \E t \in TimeSamples : t > now /\ now' = t
    /\ UNCHANGED localStorage
    /\ UNCHANGED <<coreVars, pageVars, revealVars>>

\* the game-data query answers, once the effects of the last render have run
GameChanges == EffectsFlushed /\ FetchGame

\* the FHE relayer hook becomes ready, once the effects have run
FheBecomesReady == EffectsFlushed /\ FheStatusChanges

\* the hands cached by earlier visits: nothing, the first hand for this game
\* and account, or that hand for another game or another account
StoredHands ==
    LET entry == MkCachedHand(bigintToString({ 0 }), bigintToString({ 1 }),
                              bigintToString(ClearValueOf({ 0 })),
                              bigintToString(ClearValueOf({ 1 })), 0)
    IN  { EmptyMap,
          saveCachedHand(EmptyMap, chainId, gameKey, << Wallet >>, entry),
          saveCachedHand(EmptyMap, chainId, gameKey + 1, << Wallet >>, entry),
          saveCachedHand(EmptyMap, chainId, gameKey, << << "c", "C" >> >>, entry) }

\* the page once mounted: the effects of the first render have run (the stale
\* effect has set handStale), the queries have not answered yet
RevealInit ==
    /\ NoRead
    /\ call = MkCall("revealHand", 0, 0, <<>>, 0)
    /\ flip = <<>>
    /\ NoGameWords
    /\ NoPlayerWords
    /\ NoHandWords
    /\ address = << Wallet >>
    /\ chainCommitment = 0
    /\ commitmentQuery = [ data |-> <<>>, isLoading |-> TRUE ]
    /\ gameQuery = <<>>
    /\ playersQuery = <<>>
    /\ fheStatus = "loading"
    /\ action = 0
    /\ pendingProofData = <<>>
    /\ pendingCardIndex = <<>>
    /\ pendingAction = <<>>
    /\ isDecrypting = FALSE
    /\ proofLoadedRef = <<>>
    /\ commitMove = <<>>
    /\ decrypting = <<>>
    /\ executeMove = <<>>
    /\ drawMove = <<>>
    /\ breakCommitment = <<>>
    /\ executeToast = ""
    /\ localStorage \in StoredHands
    /\ now = 0
    /\ myHand = <<>>
    /\ handStale = TRUE
    /\ lastHandSignature = <<>>
    /\ isRevealingHand = FALSE
    /\ burnerAddress \in { <<>>, << toLowerCase(Wallet) >> }
    /\ autoRevealRef = FALSE
    /\ autoRevealTimer = "none"
    /\ revealCall = <<>>
    /\ effectDeps = << CurrentDeps >>
    /\ NoFeed

RevealNext ==
    \/ GameChanges
    \/ FetchHands
    \/ FheBecomesReady
    \/ Tick
    \/ RunEffects
    \/ TimerFires
    \/ HandleRevealHand
    \/ RevealSucceeds
    \/ RevealFails

\* React runs the effects of every render, a timer that stays set fires, and
\* an awaited reveal settles
SpecReveal ==
    /\ RevealInit
    /\ [][RevealNext]_vars
    /\ WF_vars(RunEffects)
    /\ WF_vars(TimerFires)
    /\ WF_vars(RevealSucceeds \/ RevealFails)

\* ------------------------------------------------------------------------
\* The game feed: the feed cache and the query function of useGameFeed.
\* The query function runs to its next await in one step; react-query runs
\* one call of it at a time.  Game IDs are written as integers.
\* ------------------------------------------------------------------------

FEED_CACHE_VERSION == 2

FEED_CACHE_TTL_MS == 60000

FEED_CACHE_PREFIX == "whot-game-feed-cache"

FEED_MAX_GAMES == 50

FEED_FALLBACK_GAMES == 50

\* contracts.cardEngine, as the configuration writes it
cardEngine == << "C", "a" >>

\* buildFeedCacheKey(chainId, cardEngine)
buildFeedCacheKey(chain, engine) == << FEED_CACHE_PREFIX, chain, toLowerCase(engine) >>

cacheKey == buildFeedCacheKey(chainId, cardEngine)

\* serializeGame: the two bigints become decimal strings
serializeGame(game) ==
    [ game EXCEPT !.gameId = decimalDigits(game.gameId),
                  !.marketDeckMap = bigintToString(game.marketDeckMap) ]

\* deserializeGame, of an entry serializeGame wrote
deserializeGame(game) ==
    [ game EXCEPT !.gameId = decimalValue(game.gameId),
                  !.marketDeckMap = parseBigInt(game.marketDeckMap) ]

\* loadFeedCache(key): <<[games, latestGameId, updatedAt]>> or <<>> for null;
\* latestGameId is <<id>> or <<>> for undefined
loadFeedCache(store, key) ==
    LET raw == getItem(store, key)
    IN  IF raw = <<>> THEN <<>>
        ELSE IF raw[1].version # FEED_CACHE_VERSION THEN <<>>
        ELSE << [ games |-> [ k \in 1 .. Len(raw[1].games) |->
                                deserializeGame(raw[1].games[k]) ],
                  latestGameId |-> IF raw[1].latestGameId # <<>>
                                   THEN << decimalValue(raw[1].latestGameId) >>
                                   ELSE <<>>,
                  updatedAt |-> raw[1].updatedAt ] >>

\* saveFeedCache(key, chainId, cardEngine, games, latestGameId) at the given time
saveFeedCache(store, key, chain, engine, games, latestGameId, time) ==
    setItem(store, key,
            [ version |-> FEED_CACHE_VERSION,
              chainId |-> chain,
              cardEngine |-> engine,
              updatedAt |-> time,
              latestGameId |-> decimalDigits(latestGameId),
              games |-> [ k \in 1 .. Len(games) |-> serializeGame(games[k]) ] ])

\* buildGameIdRange(start, end)
buildGameIdRange(start, end) ==
    IF end < start THEN <<>> ELSE [ k \in 1 .. (end - start + 1) |-> start + k - 1 ]

\* (a slip: the window reaches one ID further back)
rangeStart_wide(latestGameId) ==
    IF latestGameId > FEED_MAX_GAMES THEN latestGameId - FEED_MAX_GAMES ELSE 1

\* rangeStart of the query function
rangeStart(latestGameId) ==
    IF latestGameId > FEED_MAX_GAMES THEN latestGameId - FEED_MAX_GAMES + 1 ELSE 1

\* (a slip: the comparator's operands are swapped)
sortGames_ascending(games) ==
    LET n == Len(games)
        place == [ i \in 1 .. n |->
                    1 + Cardinality({ j \in 1 .. n :
                                        \/ games[j].gameId < games[i].gameId
                                        \/ games[j].gameId = games[i].gameId /\ j < i }) ]
    IN  [ k \in 1 .. n |-> games[CHOOSE i \in 1 .. n : place[i] = k] ]

\* games.sort((a, b) => Number(b.gameId - a.gameId)): a stable sort, largest
\* gameId first; a game's place is one more than the number of games the
\* comparator puts before it
sortGames(games) ==
    LET n == Len(games)
        place == [ i \in 1 .. n |->
                    1 + Cardinality({ j \in 1 .. n :
                                        \/ games[j].gameId > games[i].gameId
                                        \/ games[j].gameId = games[i].gameId /\ j < i }) ]
    IN  [ k \in 1 .. n |-> games[CHOOSE i \in 1 .. n : place[i] = k] ]

\* ordered[0]?.gameId ?? fallback
firstGameId(ordered, fallback) == IF ordered = <<>> THEN fallback ELSE ordered[1].gameId

\* the record of a game with a creator, and what decodeGameData makes of it and
\* of a game that was never created
FeedLiveGame == [ LiveGame EXCEPT !.marketDeckMap = { 2, 5 } ]

FeedLiveView == decodeGameData(PackWord0(FeedLiveGame), PackWord1(FeedLiveGame))

FeedZeroView == decodeGameData({}, {})

\* the Map readGameDataBatch resolves to: a key for every requested ID above 0
dataMapOf(chain, gameIds) ==
    [ id \in { x \in Range(gameIds) : x > 0 } |->
        IF id \in chain.live THEN FeedLiveView ELSE FeedZeroView ]

\* the query function is called: it loads the cache and asks for the next
\* game ID
FeedQueryStarts ==
    /\ feedQuery.pc \in { "idle", "done", "failed" }
    /\ feedQuery' = MkFeedQuery("nextGameId", loadFeedCache(localStorage, cacheKey),
                                0, 0, feedSaved)
    /\ feedReads' = <<>>
    /\ feedResult' = <<>>
    /\ UNCHANGED <<feedChain, feedSaved, storeVars>>
    /\ UNCHANGED <<decodeVars, readVars, playerVars, cardVars, pageVars, revealVars>>

\* readNextGameId resolves: the cached games are returned, or a batch read of
\* the window (of IDs 1..50 when the next game ID is at most 1) is awaited
NextGameIdReturns ==
    /\ feedQuery.pc = "nextGameId"
    /\ LET cache == feedQuery.cache
           cachedGames == IF cache = <<>> THEN <<>> ELSE cache[1].games
           cachedLatestGameId ==
               IF cache = <<>> \/ cache[1].latestGameId = <<>> THEN 0
               ELSE cache[1].latestGameId[1]
           nextGameId == feedChain.nextGameId
           latestGameId == nextGameId - 1
           observed(at) == MkFeedQuery(at, cache, nextGameId, now, feedQuery.after)
       IN  IF nextGameId <= 1
           THEN IF cachedGames # <<>>
                THEN /\ feedResult' = << sortGames(cachedGames) >>
                     /\ feedQuery' = observed("done")
                     /\ UNCHANGED feedReads
                ELSE /\ feedReads' = << buildGameIdRange(1, FEED_FALLBACK_GAMES) >>
                     /\ feedQuery' = observed("scan")
                     /\ UNCHANGED feedResult
           ELSE IF /\ cachedLatestGameId = latestGameId
                   /\ cache # <<>>
                   /\ cache[1].updatedAt # 0
                   /\ now - cache[1].updatedAt < FEED_CACHE_TTL_MS
                THEN /\ feedResult' = << sortGames(cachedGames) >>
                     /\ feedQuery' = observed("done")
                     /\ UNCHANGED feedReads
                ELSE /\ feedReads' = << buildGameIdRange(rangeStart(latestGameId),
                                                         latestGameId) >>
                     /\ feedQuery' = observed("batch")
                     /\ UNCHANGED feedResult
    /\ UNCHANGED <<feedChain, feedSaved, storeVars>>
    /\ UNCHANGED <<decodeVars, readVars, playerVars, cardVars, pageVars, revealVars>>

\* the query function saves the list and returns it
FeedSaves(ordered, latestGameId) ==
    /\ localStorage' = saveFeedCache(localStorage, cacheKey, chainId, cardEngine,
                                     ordered, latestGameId, now)
    /\ feedSaved' = << [ nextGameId |-> feedQuery.nextGameId, at |-> now,
                         games |-> ordered ] >>
    /\ feedResult' = << ordered >>
    /\ feedQuery' = [ feedQuery EXCEPT !.pc = "done" ]

\* the batch read of IDs 1..50 resolves, the next game ID being at most 1
ScanReturns ==
    /\ feedQuery.pc = "scan"
    /\ LET fallbackIds == feedReads[1]
           fallbackMap == dataMapOf(feedChain, fallbackIds)
           orderedFallback == sortGames(feedGames(fallbackIds, fallbackMap))
       IN  FeedSaves(orderedFallback, firstGameId(orderedFallback, 0))
    /\ UNCHANGED <<feedChain, feedReads, now>>
    /\ UNCHANGED <<decodeVars, readVars, playerVars, cardVars, pageVars, revealVars>>

\* the batch read of the window resolves: the list is saved and returned, or,
\* when it is empty and the window did not start at 1, the IDs from 1 are read
BatchReturns ==
    /\ feedQuery.pc = "batch"
    /\ LET latestGameId == feedQuery.nextGameId - 1
           gameIds == feedReads[1]
           dataMap == dataMapOf(feedChain, gameIds)
           ordered == sortGames(feedGames(gameIds, dataMap))
           fallbackEnd == IF latestGameId > FEED_MAX_GAMES THEN FEED_MAX_GAMES
                          ELSE latestGameId
       IN  IF ordered = <<>> /\ rangeStart(latestGameId) # 1
           THEN /\ feedReads' = Append(feedReads, buildGameIdRange(1, fallbackEnd))
                /\ feedQuery' = [ feedQuery EXCEPT !.pc = "fallback" ]
                /\ UNCHANGED <<feedResult, feedSaved, localStorage>>
           ELSE /\ FeedSaves(ordered, firstGameId(ordered, latestGameId))
                /\ UNCHANGED feedReads
    /\ UNCHANGED <<feedChain, now>>
    /\ UNCHANGED <<decodeVars, readVars, playerVars, cardVars, pageVars, revealVars>>

\* the batch read of the IDs from 1 resolves
FallbackReturns ==
    /\ feedQuery.pc = "fallback"
    /\ LET latestGameId == feedQuery.nextGameId - 1
           fallbackIds == feedReads[2]
           fallbackMap == dataMapOf(feedChain, fallbackIds)
           ordered == sortGames(feedGames(fallbackIds, fallbackMap))
       IN  FeedSaves(ordered, firstGameId(ordered, latestGameId))
    /\ UNCHANGED <<feedChain, feedReads, now>>
    /\ UNCHANGED <<decodeVars, readVars, playerVars, cardVars, pageVars, revealVars>>

\* the read the query function awaits rejects, and the query function with it
FeedReadFails ==
    /\ feedQuery.pc \in { "nextGameId", "scan", "batch", "fallback" }
    /\ feedQuery' = [ feedQuery EXCEPT !.pc = "failed" ]
    /\ UNCHANGED <<feedChain, feedReads, feedResult, feedSaved, storeVars>>
    /\ UNCHANGED <<decodeVars, readVars, playerVars, cardVars, pageVars, revealVars>>

\* the contracts the feed is read from: none or two games with the counter
\* still unset, two games of which the newer has or has not a creator, and 52
\* games of which all, one (below the window) or none has a creator
FeedChains ==
    { [ nextGameId |-> 0, live |-> {} ],
      [ nextGameId |-> 1, live |-> {} ],
      [ nextGameId |-> 1, live |-> { 1, 2 } ],
      [ nextGameId |-> 3, live |-> { 1 } ],
      [ nextGameId |-> 3, live |-> { 1, 2 } ],
      [ nextGameId |-> 53, live |-> {} ],
      [ nextGameId |-> 53, live |-> { 2 } ],
      [ nextGameId |-> 53, live |-> 1 .. 52 ] }

\* games are created on chain
FeedChainGrows ==
    /\ \E chain \in FeedChains \ { feedChain } :
          /\ chain.nextGameId >= feedChain.nextGameId
          /\ feedChain.live \subseteq chain.live
          /\ feedChain' = chain
    /\ UNCHANGED <<feedQuery, feedReads, feedResult, feedSaved, storeVars>>
    /\ UNCHANGED <<decodeVars, readVars, playerVars, cardVars, pageVars, revealVars>>

\* the times the clock is looked at, in milliseconds
FeedTimes == { 1, 2, FEED_CACHE_TTL_MS, FEED_CACHE_TTL_MS + 1 }

\* time passes
FeedTick ==
    /\ \E t \in FeedTimes : t > now /\ now' = t
    /\ UNCHANGED <<feedVars, localStorage>>
    /\ UNCHANGED <<decodeVars, readVars, playerVars, cardVars, pageVars, revealVars>>

\* what an earlier visit left in the browser: nothing, or a feed cache of an
\* older version
StoredFeeds ==
    { EmptyMap,
      setItem(EmptyMap, cacheKey,
              [ version |-> 1, chainId |-> chainId, cardEngine |-> cardEngine,
                updatedAt |-> 1, latestGameId |-> decimalDigits(2), games |-> <<>> ]) }

FeedInit ==
    /\ NoRead
    /\ call = MkCall("gameFeed", 0, 0, <<>>, 0)
    /\ flip = <<>>
    /\ NoGameWords
    /\ NoPlayerWords
    /\ NoHandWords
    /\ NoPage
    /\ NoReveal
    /\ localStorage \in StoredFeeds
    /\ now = 1
    /\ feedChain \in FeedChains
    /\ feedQuery = MkFeedQuery("idle", <<>>, 0, 0, <<>>)
    /\ feedReads = <<>>
    /\ feedResult = <<>>
    /\ feedSaved = <<>>

FeedNext ==
    \/ FeedQueryStarts
    \/ NextGameIdReturns
    \/ ScanReturns
    \/ BatchReturns
    \/ FallbackReturns
    \/ FeedReadFails
    \/ FeedChainGrows
    \/ FeedTick

SpecFeed == FeedInit /\ [][FeedNext]_vars

\* ------------------------------------------------------------------------
\* Properties of decodeGameData
\* ------------------------------------------------------------------------

\* no bit of the given range of the given word was changed after packing
Untouched(word, range) == flip = <<>> \/ flip[1] # word \/ flip[2] \notin range

\* C7: decodeGameData returns exactly the packed value of every field, and a
\* changed bit outside a field's range leaves that field as packed.
C7_RoundTrip ==
    view # <<>> =>
        LET v == view[1]
        IN  /\ Untouched(0, 0 .. 159) => v.gameCreator = packed.creator
            /\ Untouched(0, 160 .. 167) => v.callCard = packed.callCard
            /\ Untouched(0, 168 .. 175) => v.playerTurnIdx = packed.playerTurnIdx
            /\ Untouched(0, 176 .. 183) => v.status = packed.status
            /\ Untouched(0, 184 .. 223) => v.lastMoveTimestamp = packed.lastMoveTimestamp
            /\ Untouched(0, 224 .. 231) => v.numProposedPlayers = packed.numProposedPlayers
            /\ Untouched(0, 232 .. 239) => v.hookPermissions = packed.hookPermissions
            /\ Untouched(0, 240 .. 255) => v.playerStoreMap = packed.playerStoreMap
            /\ Untouched(1, 0 .. 159) => v.ruleset = packed.ruleset
            /\ Untouched(1, 160 .. 223) => v.marketDeckMap = packed.marketDeckMap
            /\ Untouched(1, 224 .. 231) => v.initialHandSize = packed.initialHandSize
            /\ Untouched(1, 232 .. 239) => v.playersLeftToJoin = packed.playersLeftToJoin

\* a status of 255 between all-zero neighbours has been decoded, and a bit
\* next to the status field has been changed
C7_Witness ==
    /\ view # <<>>
    /\ packed = [ AllZeroFields EXCEPT !.status = 255 ]
    /\ flip = <<0, 184>>

\* C8: playersJoined is the number of set bits of the seat map in positions
\* 1..15; bit 0 does not count.
C8_PlayersJoined ==
    view # <<>> =>
        view[1].playersJoined = Cardinality(view[1].playerStoreMap \cap (1 .. 15))

\* a seat map with the sentinel bit, the lowest seat and the highest seat
C8_Witness ==
    /\ view # <<>>
    /\ view[1].playerStoreMap = {0, 1, 15}
    /\ view[1].playersJoined = 2

\* C9: every decoded record has maxPlayers = playersJoined + playersLeftToJoin.
C9_MaxPlayers ==
    view # <<>> =>
        view[1].maxPlayers = view[1].playersJoined + view[1].playersLeftToJoin

\* occupied seats and players left to join, with a different proposed count
C9_Witness ==
    /\ view # <<>>
    /\ view[1].playersJoined = 3
    /\ view[1].playersLeftToJoin = 2
    /\ view[1].numProposedPlayers = 0

\* C10: decoding two zero words gives the zero creator address, status 0,
\* playersJoined 0 and maxPlayers 0.
C10_ZeroWords ==
    (view # <<>> /\ raw0 = {} /\ raw1 = {}) =>
        /\ view[1].gameCreator = ZERO_ADDRESS
        /\ view[1].status = 0
        /\ view[1].playersJoined = 0
        /\ view[1].maxPlayers = 0

\* two zero words have been decoded
C10_Witness == view # <<>> /\ raw0 = {} /\ raw1 = {} /\ flip = <<>>

\* ------------------------------------------------------------------------
\* Properties of decodePlayerData and of both record decoders
\* ------------------------------------------------------------------------

\* digits is a string getAddress accepts: 40 hex digits
AddressInRange(digits) ==
    isAddress(digits) /\ \A j \in DOMAIN digits : digits[j] \in 0 .. 15

GameFieldsInRange(v) ==
    /\ AddressInRange(v.gameCreator)
    /\ v.callCard \in 0 .. 255
    /\ v.playerTurnIdx \in 0 .. 255
    /\ v.status \in 0 .. 255
    /\ v.lastMoveTimestamp \subseteq 0 .. 39
    /\ v.numProposedPlayers \in 0 .. 255
    /\ v.hookPermissions \in 0 .. 255
    /\ v.playerStoreMap \subseteq 0 .. 15
    /\ v.playersJoined \in 0 .. 15
    /\ v.playersLeftToJoin \in 0 .. 255
    /\ v.maxPlayers \in 0 .. 270
    /\ AddressInRange(v.ruleset)
    /\ v.marketDeckMap \subseteq 0 .. 63
    /\ v.initialHandSize \in 0 .. 255

PlayerFieldsInRange(v) ==
    /\ AddressInRange(v.playerAddr)
    /\ v.deckMap \subseteq 0 .. 63
    /\ v.pendingAction \in 0 .. 255
    /\ v.score \in 0 .. 65535
    /\ v.forfeited \in BOOLEAN
    /\ v.hand0 \subseteq WordBits
    /\ v.hand1 \subseteq WordBits

\* C11: decodeGameData and decodePlayerData return a record for every words
\* they are handed (getAddress accepts both address strings, so nothing is
\* raised), and every field lies in the range of its bit width.
C11_Total ==
    /\ view # <<>> => GameFieldsInRange(view[1])
    /\ player # <<>> => PlayerFieldsInRange(player[1])

\* a player record has been decoded whose score field is full while the flag
\* byte above it has a bit set
C11_Witness ==
    /\ player # <<>>
    /\ player[1].score = 65535
    /\ player[1].forfeited
    /\ flip = <<0, 248>>

\* C12: decodePlayerData takes the address from bits 0..159 of word 0, the
\* deck map from bits 160..223, the pending action from bits 224..231, the
\* score from bits 232..247 and forfeited from whether the byte 248..255 is
\* non-zero; hand0 and hand1 are words 1 and 2 as handed in, and a changed
\* bit of word 1 or word 2 leaves every other field as packed.
C12_WordZeroOnly ==
    player # <<>> =>
        LET v == player[1]
        IN  /\ Untouched(0, 0 .. 159) => v.playerAddr = playerPacked.playerAddr
            /\ Untouched(0, 160 .. 223) => v.deckMap = playerPacked.deckMap
            /\ Untouched(0, 224 .. 231) => v.pendingAction = playerPacked.pendingAction
            /\ Untouched(0, 232 .. 247) => v.score = playerPacked.score
            /\ Untouched(0, 248 .. 255) => v.forfeited = (playerPacked.forfeited # 0)
            /\ v.forfeited = (playerWords[1] \cap (248 .. 255) # {})
            /\ v.hand0 = playerWords[2]
            /\ v.hand1 = playerWords[3]

\* the top bit of word 1 has been changed under a record with a full score and
\* no forfeit, and the record decoded again
C12_Witness ==
    /\ player # <<>>
    /\ playerPacked = [ AllZeroPlayer EXCEPT !.score = 65535 ]
    /\ flip = <<1, 255>>
    /\ player[1].hand0 = {255}

\* ------------------------------------------------------------------------
\* Properties of the read operations
\* ------------------------------------------------------------------------

ExtsloadPaths == { "readContractBalanced", "readContract" }

StoragePaths == { "getStorageAtBalanced", "getStorageAt" }

\* the calls made by the time the operation stands at each position
CallsAfterBalancedThrow == [ FirstCalls EXCEPT !.readContract = 1 ]

CallsInStorageBalanced(slots) ==
    [ CallsAfterBalancedThrow EXCEPT !.readStorageSlots = 1, !.getStorageAtBalanced = slots ]

CallsInStorageClient(slots) ==
    [ CallsInStorageBalanced(slots) EXCEPT !.getStorageAt = slots ]

\* the number of times a slot was read individually
SlotReads(c, slot) ==
    Cardinality({ k \in 1 .. Len(c.getStorageAtBalanced) : c.getStorageAtBalanced[k] = slot })
    + Cardinality({ k \in 1 .. Len(c.getStorageAt) : c.getStorageAt[k] = slot })

\* position k of the result list of the served chunk held no value
Missing(e, k) ==
    IF e.path \in ExtsloadPaths
    THEN k > Len(e.resp) \/ e.resp[k] = None
    ELSE e.resp[k] = None \/ e.resp[k][1] = <<>>

\* the slot whose word belongs at position k of the chunk starting at `start`:
\* base slot + (k - 1) for the single reads, the two slots of each game in turn
\* for the batch read
SlotAtPosition(c, start, k) ==
    CASE c.op = "readGameData" -> SlotAdd(gameDataSlot(c.gameId), k - 1)
      [] c.op = "readPlayerData" -> SlotAdd(playerDataSlot(c.gameId, c.playerIndex), k - 1)
      [] c.op = "readCommitmentHash" -> commitmentSlot(c.gameId)
      [] c.op = "readNextGameId" -> <<GAME_ID_SLOT>>
      [] c.op = "readGameDataBatch" ->
            LET ids == uniqueIds(c.gameIds)
            IN  SlotAdd(gameDataSlot(ids[start + (k + 1) \div 2]), (k - 1) % 2)

\* C1: when readExtsload has failed, readStorageSlots is invoked exactly once
\* for the call (chunk) and the operation uses its values as returned; when
\* readExtsload has succeeded, readStorageSlots and the slot reads are never
\* invoked.
C1_Fallback ==
    /\ pc \in { "storageBalanced", "storageClient", "failed" } => calls.readStorageSlots = 1
    /\ pc \in { "extsloadBalanced", "extsloadClient" } =>
          /\ calls.readStorageSlots = 0
          /\ calls.getStorageAtBalanced = <<>>
          /\ calls.getStorageAt = <<>>
    /\ last # <<>> =>
          LET e == last[1]
          IN  /\ e.path \in StoragePaths =>
                    /\ e.calls.readStorageSlots = 1
                    /\ e.words = [ k \in 1 .. Len(e.resp) |-> hexToBigIntSafe(e.resp[k]) ]
              /\ e.path \in ExtsloadPaths =>
                    /\ e.calls.readStorageSlots = 0
                    /\ e.calls.getStorageAtBalanced = <<>>
                    /\ e.calls.getStorageAt = <<>>
              /\ (pc = "done" /\ call.op # "readGameDataBatch") =>
                    ret = Some(returnValue(call, e.words))
              /\ call.op = "readGameDataBatch" =>
                    \A j \in 1 .. Len(sliceOf(call, e.start)) :
                        results[sliceOf(call, e.start)[j]]
                            = decodeGameData(e.words[2 * j - 1], e.words[2 * j])

\* a game read served by the fallback with a non-zero record
C1_Witness ==
    /\ pc = "done"
    /\ call.op = "readGameData"
    /\ last # <<>>
    /\ last[1].path = "getStorageAt"
    /\ ret[1].gameCreator # ZERO_ADDRESS

\* C2 as stated: the batched accessor is attempted once and each slot is read
\* once before a read error reaches the caller.
C2_Original ==
    pc = "failed" =>
        /\ calls.readContractBalanced + calls.readContract = 1
        /\ \A k \in 1 .. Len(fallbackSlots(call, chunkStart)) :
              SlotReads(calls, fallbackSlots(call, chunkStart)[k]) = 1

\* C2 (amended): within one read call (one chunk of the batch read) the batched
\* accessor is attempted through readContractBalanced and, only if that throws,
\* once more through client.readContract; only if both throw is every requested
\* slot read through getStorageAtBalanced and, only if that round fails, once
\* more through client.getStorageAt; a read error reaches the caller after
\* exactly these four failed rounds and nothing is attempted beyond them.
C2_Attempts ==
    LET slots == fallbackSlots(call, chunkStart)
    IN  /\ pc = "extsloadBalanced" => calls = FirstCalls
        /\ pc = "extsloadClient" => calls = CallsAfterBalancedThrow
        /\ pc = "storageBalanced" => calls = CallsInStorageBalanced(slots)
        /\ pc = "storageClient" => calls = CallsInStorageClient(slots)
        /\ pc = "failed" =>
              /\ calls = CallsInStorageClient(slots)
              /\ calls.readContractBalanced + calls.readContract = 2
              /\ \A k \in 1 .. Len(slots) : SlotReads(calls, slots[k]) = 2
        /\ last # <<>> =>
              LET e == last[1]
                  served == fallbackSlots(call, e.start)
              IN  /\ e.path = "readContractBalanced" => e.calls = FirstCalls
                  /\ e.path = "readContract" => e.calls = CallsAfterBalancedThrow
                  /\ e.path = "getStorageAtBalanced" => e.calls = CallsInStorageBalanced(served)
                  /\ e.path = "getStorageAt" => e.calls = CallsInStorageClient(served)

\* a player read has failed after all four rounds
C2_Witness ==
    /\ pc = "failed"
    /\ call.op = "readPlayerData"
    /\ Len(calls.getStorageAt) = 3

\* C3: a read whose every strategy failed has no return value, and an
\* operation that returned has been served: a single read returns the record
\* of the words it was served, the batch read a Map with every requested ID.
C3_NoDefault ==
    /\ pc = "failed" => ret = None
    /\ ret # None =>
          /\ pc = "done"
          /\ call.op # "readGameDataBatch" =>
                (last # <<>> /\ ret = Some(returnValue(call, last[1].words)))
          /\ call.op = "readGameDataBatch" =>
                DOMAIN ret[1] = Range(uniqueIds(call.gameIds))

\* the batch read has failed in a later chunk, with an earlier chunk decoded
C3_Witness ==
    /\ pc = "failed"
    /\ call.op = "readGameDataBatch"
    /\ results # EmptyMap
    /\ ret = None

\* C4: when the result list of a served chunk holds a value at every position,
\* the word used at position k is the word stored at the k-th requested slot,
\* whichever of the four calls served the chunk.
C4_SameWords ==
    last # <<>> =>
        LET e == last[1]
            n == wordCount(call, e.start)
        IN  (\A k \in 1 .. n : ~ Missing(e, k)) =>
                e.words = [ k \in 1 .. n |-> StorageAt(SlotAtPosition(call, e.start, k)) ]

\* a player record with three non-zero words served by the per-slot fallback
C4_Witness ==
    /\ call.op = "readPlayerData"
    /\ pc = "done"
    /\ last # <<>>
    /\ last[1].path = "getStorageAtBalanced"
    /\ \A k \in 1 .. 3 : ~ Missing(last[1], k) /\ last[1].words[k] # {}

\* C5: a position of a result list that holds no value (the list is shorter,
\* the entry is undefined, or the hex string is "0x") is used as the zero
\* word, and the chunk is served all the same.
C5_MissingIsZero ==
    last # <<>> =>
        LET e == last[1]
        IN  /\ Len(e.words) = wordCount(call, e.start)
            /\ \A k \in 1 .. Len(e.words) : Missing(e, k) => e.words[k] = {}
            /\ (pc = "done" /\ call.op # "readGameDataBatch") =>
                  ret = Some(returnValue(call, e.words))

\* a game read has returned although the first word, non-zero in storage, was
\* missing from the extsload result
C5_Witness ==
    /\ pc = "done"
    /\ call.op = "readGameData"
    /\ last # <<>>
    /\ last[1].path = "readContractBalanced"
    /\ Missing(last[1], 1)
    /\ StorageAt(gameDataSlot(call.gameId)) # {}
    /\ ret[1].gameCreator = ZERO_ADDRESS

\* C6 as stated: the Map returned by readGameDataBatch has a key only for IDs
\* whose decoded creator is not the zero address.
C6_Original ==
    (pc = "done" /\ call.op = "readGameDataBatch") =>
        \A id \in DOMAIN ret[1] : ret[1][id].gameCreator # ZERO_ADDRESS

\* C6 (amended): the Map returned by readGameDataBatch has a key for every
\* distinct requested ID above 0, whatever its creator; the IDs whose decoded
\* creator is the zero address are left out by the feed's loop over the Map.
C6_MapKeys ==
    (pc = "done" /\ call.op = "readGameDataBatch") =>
        LET map == ret[1]
            listed == feedGames(call.gameIds, map)
        IN  /\ DOMAIN map = { id \in Range(call.gameIds) : id > 0 }
            /\ { listed[k].gameId : k \in 1 .. Len(listed) }
                  = { id \in DOMAIN map : map[id].gameCreator # ZERO_ADDRESS }

\* IDs [1, 2, 3] where only game 2 has a creator: the Map has all three keys
C6_Witness ==
    /\ pc = "done"
    /\ call.op = "readGameDataBatch"
    /\ call.gameIds = <<1, 2, 3>>
    /\ DOMAIN ret[1] = {1, 2, 3}
    /\ ret[1][1].gameCreator = ZERO_ADDRESS
    /\ ret[1][2].gameCreator # ZERO_ADDRESS
    /\ ret[1][3].gameCreator = ZERO_ADDRESS
    /\ Len(feedGames(call.gameIds, ret[1])) = 1

\* the three storage words of player j of game g
PlayerWordSlots(g, j) == { SlotAdd(playerDataSlot(g, j), k) : k \in 0 .. 2 }

\* C13: playerDataSlot(g, i) is keccak(gameDataSlot(g) + 4) + 3 * i, the next
\* player's slot lies 3 further, and the three words readPlayerData asks for
\* (through readExtsload, and through readStorageSlots on the fallback) are
\* slot, slot + 1 and slot + 2, none of which belongs to another player index.
C13_PlayerSlots ==
    (call.op = "readPlayerData" /\ requested # <<>>) =>
        LET g == call.gameId
            i == call.playerIndex
            slot == playerDataSlot(g, i)
            words == << slot, SlotAdd(slot, 1), SlotAdd(slot, 2) >>
        IN  /\ slot = SlotAdd(keccak1(SlotAdd(gameDataSlot(g), 4)), 3 * i)
            /\ playerDataSlot(g, i + 1) = SlotAdd(slot, 3)
            /\ requested = << words >>
            /\ calls.getStorageAtBalanced \in { <<>>, words }
            /\ calls.getStorageAt \in { <<>>, words }
            /\ \A j \in 0 .. (MaxPlayerIndex + 1) :
                  j # i => PlayerWordSlots(g, j) \cap Range(words) = {}

\* the record of the player at index 1 has been read word by word after both
\* extsload calls failed
C13_Witness ==
    /\ call.op = "readPlayerData"
    /\ call.playerIndex = 1
    /\ pc = "done"
    /\ Len(calls.getStorageAtBalanced) = 3
    /\ ret # None

\* ------------------------------------------------------------------------
\* Properties of the deck-map functions
\* ------------------------------------------------------------------------

\* the value of the two lowest bits of a bigint
LowTwoBits(value) == (IF 0 \in value THEN 1 ELSE 0) + (IF 1 \in value THEN 2 ELSE 0)

\* C14: decodeDeckMap returns cardBitSize = 8 - (the two lowest bits of the raw
\* value), which is one of 5..8 (5 for low bits 11, 8 for low bits 00), and
\* mapBits = the raw value shifted right by 2.
C14_DeckShape ==
    deckShape # <<>> =>
        LET raw == handArgs.deckMap
            d == deckShape[1]
        IN  /\ d.raw = raw
            /\ d.cardBitSize = 8 - LowTwoBits(raw)
            /\ d.cardBitSize \in 5 .. 8
            /\ LowTwoBits(raw) = 3 => d.cardBitSize = 5
            /\ LowTwoBits(raw) = 0 => d.cardBitSize = 8
            /\ d.mapBits = { b - 2 : b \in raw \ {0, 1} }

\* a deck map with low bits 11 and cards in its map has been decoded
C14_Witness ==
    /\ deckShape # <<>>
    /\ LowTwoBits(handArgs.deckMap) = 3
    /\ deckShape[1].cardBitSize = 5
    /\ deckShape[1].mapBits = {0, 1, 5}

\* the card map of a raw deck map: its bits above the two low ones, moved down
MapBitsOf(raw) == { b - 2 : b \in raw \ {0, 1} }

\* the list is strictly increasing and every element is a position below maxCards
IncreasingBelow(list, maxCards) ==
    /\ \A k \in DOMAIN list : list[k] \in 0 .. (maxCards - 1)
    /\ \A k \in 1 .. (Len(list) - 1) : list[k] < list[k + 1]

FieldValue(word, offset, width) == Number({ b \in 0 .. (width - 1) : offset + b \in word })

\* C16: decodeHandCards returns one card per index of deckMapToIndexes(deckMap),
\* in the same order; the card for index i has the value of the cardBitSize
\* bits at offset (i mod cardsPerWord) * cardBitSize of clear word 0 when
\* i < cardsPerWord and of clear word 1 otherwise, where cardsPerWord is
\* 256 divided by cardBitSize, rounded down.
C16_HandCards ==
    handCards # <<>> =>
        LET list == handCards[1]
            idxs == deckMapToIndexes(handArgs.deckMap, DEFAULT_MAX_CARDS)
            cardBitSize == decodeDeckMap(handArgs.deckMap).cardBitSize
            cardsPerWord == 256 \div cardBitSize
        IN  /\ Len(list) = Len(idxs)
            /\ \A k \in DOMAIN list :
                  LET i == idxs[k]
                      w == IF i < cardsPerWord THEN handArgs.hand0 ELSE handArgs.hand1
                  IN  /\ list[k].index = i
                      /\ list[k].value =
                            FieldValue(w, (i % cardsPerWord) * cardBitSize, cardBitSize)

\* with 8-bit cards, the last card of clear word 0 (index 31) and the first
\* card of clear word 1 (index 32) have been decoded from two different words
C16_Witness ==
    /\ handCards # <<>>
    /\ LowTwoBits(handArgs.deckMap) = 0
    /\ handArgs.hand0 # handArgs.hand1
    /\ Len(handCards[1]) = 2
    /\ handCards[1][1].index = 31 /\ handCards[1][1].value = 146
    /\ handCards[1][2].index = 32 /\ handCards[1][2].value = 56

\* C17 as stated: some deck map derives a cardBitSize of 0, and decodeHandCards
\* returns the empty list for it.
C17_Original ==
    \E d \in DeckMaps :
        /\ decodeDeckMap(d).cardBitSize = 0
        /\ decodeHandCards(d, handArgs.hand0, handArgs.hand1) = <<>>

\* C17: no deck map derives a cardBitSize of 0 or above 32, so decodeHandCards
\* never takes its early return: it returns the empty list exactly when
\* deckMapToIndexes finds no card in the map, as for the zero deck map.
C17_WidthNeverZero ==
    /\ deckShape # <<>> =>
          (deckShape[1].cardBitSize # 0 /\ deckShape[1].cardBitSize <= 32)
    /\ handCards # <<>> =>
          (handCards[1] = <<>>
             <=> deckMapToIndexes(handArgs.deckMap, DEFAULT_MAX_CARDS) = <<>>)

\* the zero deck map (no card dealt) has been decoded: a width of 8 and no card
C17_Witness ==
    /\ handArgs.deckMap = {}
    /\ deckShape # <<>>
    /\ deckShape[1].cardBitSize = 8
    /\ handCards = << <<>> >>

\* ------------------------------------------------------------------------
\* Properties of readGameDataBatch's chunks
\* ------------------------------------------------------------------------

\* the places <<chunk, position>> at which the first slot of game id was
\* handed to readExtsload
Requests(id) ==
    { place \in UNION { { <<c, k>> : k \in DOMAIN requested[c] } : c \in DOMAIN requested } :
        requested[place[1]][place[2]] = gameDataSlot(id) }

\* the chunk is slot, slot + 1 for each of at most batchSize IDs above 0 of the input
WellFormedChunk(chunk) ==
    /\ Len(chunk) \in { 2 * n : n \in 1 .. call.batchSize }
    /\ \A n \in 1 .. (Len(chunk) \div 2) :
          /\ \E id \in Range(call.gameIds) : id > 0 /\ chunk[2 * n - 1] = gameDataSlot(id)
          /\ chunk[2 * n] = SlotAdd(chunk[2 * n - 1], 1)

\* C19 as stated: once the batch read has returned, every distinct game ID of
\* the input has been requested exactly once, in chunks of at most batchSize IDs.
C19_Original ==
    (call.op = "readGameDataBatch" /\ pc = "done") =>
        /\ \A c \in DOMAIN requested : WellFormedChunk(requested[c])
        /\ \A id \in Range(call.gameIds) : Cardinality(Requests(id)) = 1

\* C19: readGameDataBatch drops the IDs that are not above 0 and hands every
\* other distinct ID of its input to readExtsload in exactly one chunk, at one
\* place, however often the ID is repeated, as the two slots gameDataSlot(id)
\* and gameDataSlot(id) + 1; no chunk carries more than batchSize IDs.  The
\* only further requests for those slots are the fallback rounds of the chunk
\* under way, which ask for the same slot list.
C19_Chunks ==
    call.op = "readGameDataBatch" =>
        /\ \A c \in DOMAIN requested : WellFormedChunk(requested[c])
        /\ \A id \in Range(call.gameIds) :
              /\ Cardinality(Requests(id)) <= 1
              /\ id <= 0 => Requests(id) = {}
              /\ (pc = "done" /\ id > 0) => Cardinality(Requests(id)) = 1
        /\ requested # <<>> =>
              /\ calls.getStorageAtBalanced \in { <<>>, requested[Len(requested)] }
              /\ calls.getStorageAt \in { <<>>, requested[Len(requested)] }

\* the list [2, 2] has been read: one chunk with the two slots of game 2
C19_Witness ==
    /\ call.op = "readGameDataBatch"
    /\ call.gameIds = <<2, 2>>
    /\ pc = "done"
    /\ requested = << << gameDataSlot(2), SlotAdd(gameDataSlot(2), 1) >> >>

\* the number of calls the operation awaits at its present await
Awaited ==
    CASE pc \in { "extsloadBalanced", "extsloadClient" } -> 1
      [] pc \in { "storageBalanced", "storageClient" } -> Len(requested[Len(requested)])
      [] OTHER -> 0

\* C20 as stated: at any moment the calls of a batch read that are still
\* outstanding number at most 2 * batchSize.
C20_Original ==
    call.op = "readGameDataBatch" => inflight + stale <= 2 * call.batchSize

\* C20: readGameDataBatch starts its chunks one after another: the calls it
\* awaits are those of the chunk under way (one extsload call, or one read per
\* slot of that chunk, so at most 2 * batchSize), and a chunk is started only
\* when the chunk before it has been served.  The calls a rejected Promise.all
\* of getStorageAtBalanced leaves behind are not awaited and may still be
\* outstanding during later rounds and later chunks: at most
\* 2 * batchSize - 1 of them for each chunk started, and as many again from
\* the client.getStorageAt round whose rejection ends the read.
C20_Sequential ==
    call.op = "readGameDataBatch" =>
        /\ inflight = Awaited
        /\ inflight <= 2 * call.batchSize
        /\ requested # <<>> => chunkStart \in { (Len(requested) - 1) * call.batchSize,
                                                Len(requested) * call.batchSize }
        /\ (Len(requested) > 1 /\ Awaited > 0) =>
              (last # <<>> /\ last[1].start = chunkStart - call.batchSize)
        /\ stale <= (Len(requested) + (IF pc = "failed" THEN 1 ELSE 0))
                        * (2 * call.batchSize - 1)

\* the second chunk is under way while a call of the first chunk's rejected
\* getStorageAtBalanced round is still outstanding
C20_Witness ==
    /\ call.op = "readGameDataBatch"
    /\ Len(requested) = 2
    /\ pc = "extsloadBalanced"
    /\ inflight = 1
    /\ stale > 0

\* ------------------------------------------------------------------------
\* Properties of the game page
\* ------------------------------------------------------------------------

\* the commitment query has loaded and reports zero, for a connected account
ZeroObserved == address # <<>> /\ ~loadingCommitment /\ commitmentHash = 0

\* no pending proof, card index or action in state, and no cached pending
\* commit stored for (chain, game, address)
NothingPending ==
    /\ pendingProofData = <<>>
    /\ pendingCardIndex = <<>>
    /\ pendingAction = <<>>
    /\ address # <<>> => commitKey(chainId, gameKey, address[1]) \notin DOMAIN localStorage

\* a step that puts a proof into state while no decryption is awaited: the
\* proof comes from the cache
CachedProofLoaded ==
    /\ pendingProofData = <<>>
    /\ pendingProofData' # <<>>
    /\ decrypting = <<>>

\* C21: once the commitment query has loaded and reports zero for a connected
\* account, the page reaches a state with no pending proof, card index or
\* action and no cached pending commit for (chain, game, address), unless
\* the query stops reporting zero first; and a cached proof is put into state
\* only while the observed hash is non-zero, as the cache holds it.
C21_Settles ==
    /\ ZeroObserved ~> (~ZeroObserved \/ NothingPending)
    /\ [][CachedProofLoaded =>
            /\ hasCommittedOnChain
            /\ << pendingProofData'[1] >>
                 = << loadPendingCommit(localStorage, chainId, gameKey, address)[1].proofData >>
            /\ pendingCardIndex'
                 = << loadPendingCommit(localStorage, chainId, gameKey, address)[1].cardIndex >>
            /\ pendingAction'
                 = << loadPendingCommit(localStorage, chainId, gameKey, address)[1].action >>]_vars

\* the cached proof of an earlier visit has been loaded while a commitment is
\* observed
C21_Witness ==
    /\ address # <<>>
    /\ hasCommittedOnChain
    /\ proofLoadedRef = << loadKey >>
    /\ pendingProofData # <<>>
    /\ pendingCardIndex # <<>>


\* the generated proof is in state and in the cache of the wallet's account
ProofAvailable ==
    /\ pendingProofData # <<>>
    /\ loadPendingCommit(localStorage, chainId, gameKey, << Wallet >>) # <<>>

\* a step in which the player commits again, which drops the proof in state
CommitsAgain == commitMove = <<>> /\ commitMove' # <<>>

\* C22: a proof that handleCommit has put into state and into the cache stays
\* in both until an execute or a break-commitment succeeds (or the player
\* commits again), whatever the commitment poll has observed meanwhile.
C22_ProofStays ==
    [][(ProofAvailable /\ ~ExecuteSucceeds /\ ~BreakSucceeds /\ ~CommitsAgain)
          => ProofAvailable']_vars


\* a step in which handleCommitCard submits commitMove
CommitCardSubmits ==
    /\ commitMove = <<>>
    /\ commitMove' # <<>>
    /\ commitMove'[1].via = "handleCommitCard"

\* a step in which handleDrawFromMarket submits the draw
DrawSubmits == drawMove = <<>> /\ drawMove' # <<>>

\* C23: handleCommitCard submits commitMove, and handleDrawFromMarket submits
\* a draw, only with a wallet connected, in a started game on the connected
\* player's turn, with no proof in state and a zero observed commitment hash;
\* handleCommitCard moreover only while the player has no pending pick.
C23_Guards ==
    [][/\ CommitCardSubmits \/ DrawSubmits =>
            /\ address # <<>>
            /\ gameQuery # <<>> /\ gameQuery[1].status = 1
            /\ me # <<>> /\ gameQuery[1].playerTurnIdx = me[1].index
            /\ pendingProofData = <<>>
            /\ commitmentHash = 0
       /\ CommitCardSubmits => me[1].pendingAction = 0]_vars

\* handleCommitCard has submitted a commit that is awaited
C23_Witness ==
    /\ commitMove # <<>>
    /\ commitMove[1].via = "handleCommitCard"
    /\ chainCommitment = 1


\* a step in which handleExecute submits a move
ExecuteSubmits == executeMove = <<>> /\ executeMove' # <<>>

\* a step in which the awaited executeMove settles
ExecuteSettles == executeMove # <<>> /\ executeMove' = <<>>

\* C24: handleExecute submits a Play or a Defend only with the proof that is
\* in state; a submission that fails ("Execute failed") leaves
\* pendingProofData, pendingCardIndex, pendingAction and the cached pending
\* commit as they were, and one that succeeds ("Execute sent") leaves all
\* three null and no pending commit cached for the account that executed.
C24_Execute ==
    [][/\ ExecuteSubmits /\ executeMove'[1].action \in { 0, 1 } =>
            /\ pendingProofData # <<>>
            /\ executeMove'[1].proofData = pendingProofData
       /\ ExecuteSettles /\ executeToast' = "Execute failed" =>
            UNCHANGED <<pendingProofData, pendingCardIndex, pendingAction, localStorage>>
       /\ ExecuteSettles /\ executeToast' = "Execute sent" =>
            /\ pendingProofData' = <<>>
            /\ pendingCardIndex' = <<>>
            /\ pendingAction' = <<>>
            /\ commitKey(chainId, gameKey, executeMove[1].address[1])
                  \notin DOMAIN localStorage']_vars

\* an execute has failed and the proof is still in state and in the cache
C24_Witness ==
    /\ executeToast = "Execute failed"
    /\ executeMove = <<>>
    /\ ProofAvailable
    /\ pendingCardIndex # <<>>
    /\ pendingAction # <<>>


\* C25: the auto-reveal latch is set only while the auto-reveal timer is
\* pending or the reveal it started is running.
C25_Latch == autoRevealRef => autoRevealTimer \in { "pending", "running" }



\* ------------------------------------------------------------------------
\* Properties of the hand cache
\* ------------------------------------------------------------------------

\* a step that shows a hand without a decryption having settled: the cached-hand
\* effect or the cache path of handleRevealHand
CachePopulates == revealCall = <<>> /\ myHand' # myHand

\* the entry stored for the page's (chain, game, address), <<>> if none
OwnEntry ==
    IF address = <<>> THEN <<>>
    ELSE getItem(localStorage, handKey(chainId, gameKey, address[1]))

\* the hand shown is the one decoded from an entry of the page's own key whose
\* handles are the player's current ones and which is at most 24 hours old
FromFreshOwnEntry ==
    /\ me # <<>>
    /\ OwnEntry # <<>>
    /\ OwnEntry[1].hand0 = bigintToString(me[1].hand0)
    /\ OwnEntry[1].hand1 = bigintToString(me[1].hand1)
    /\ now - OwnEntry[1].updatedAt <= HAND_CACHE_TTL_MS
    /\ myHand' = << cachedCards(OwnEntry[1], me[1]) >>

\* loading an entry older than 24 hours returns nothing and deletes it, a key
\* with no entry returns nothing whatever other keys hold, and the case of the
\* address makes no difference
LoadsOwnFreshOnly ==
    /\ address # <<>>
    /\ LET key == handKey(chainId, gameKey, address[1])
           loaded == loadCachedHand(localStorage, chainId, gameKey, address, now)
       IN  /\ (OwnEntry # <<>> /\ now - OwnEntry[1].updatedAt > HAND_CACHE_TTL_MS)
                => (loaded.value = <<>> /\ getItem(loaded.store, key) = <<>>)
           /\ OwnEntry = <<>> => (loaded.value = <<>> /\ loaded.store = localStorage)
           /\ loaded.value # <<>> => loaded.value = OwnEntry
           /\ loaded = loadCachedHand(localStorage, chainId, gameKey,
                                      << toLowerCase(address[1]) >>, now)

\* C26: a cached hand populates the displayed hand only when its two handles
\* equal the player's current hand0 and hand1 and it is at most 24 hours old;
\* an older entry loads as nothing and is deleted; an entry is returned only
\* for its own (chain, game, address) key, the address in any case.
C26_CachedHand == [](LoadsOwnFreshOnly) /\ [][CachePopulates => FromFreshOwnEntry]_vars

\* a hand shown from an entry exactly 24 hours old, no decryption being
\* possible yet
C26_Witness ==
    /\ myHand # <<>>
    /\ fheStatus = "loading"
    /\ now = HAND_CACHE_TTL_MS
    /\ OwnEntry # <<>>
    /\ OwnEntry[1].updatedAt = 0


\* ------------------------------------------------------------------------
\* Properties of the game feed
\* ------------------------------------------------------------------------

\* the query function has read the next game ID that the query which saved
\* the cache had read, less than 60 seconds after the save
FollowsSave ==
    /\ feedQuery.pc \in { "scan", "batch", "fallback", "done" }
    /\ feedQuery.after # <<>>
    /\ feedQuery.nextGameId = feedQuery.after[1].nextGameId
    /\ feedQuery.checkedAt - feedQuery.after[1].at < FEED_CACHE_TTL_MS

\* C27: a feed query that follows a save, reads the same next game ID and
\* compares it with the cache less than 60 seconds after the save hands no ID
\* list to readGameDataBatch and returns the games that were saved.
C27_CacheHit ==
    FollowsSave =>
        /\ feedReads = <<>>
        /\ feedQuery.pc = "done"
        /\ feedResult = << feedQuery.after[1].games >>

\* the list the query function returned was built from chain reads
BuiltFromReads == feedQuery.pc = "done" /\ feedReads # <<>> /\ feedResult # <<>>

\* the IDs from 1 were scanned: the next game ID was at most 1, or the window
\* held no game
ScannedFromOne == feedQuery.nextGameId <= 1 \/ Len(feedReads) = 2

\* C28: a list the feed query builds from chain reads is in strictly
\* descending gameId order, holds no game whose creator is the zero address,
\* holds at most 50 games, and its IDs lie among the 50 most recent IDs, or
\* in 1..50 when the IDs from 1 were scanned.
C28_FeedList ==
    BuiltFromReads =>
        LET games == feedResult[1]
            latestGameId == feedQuery.nextGameId - 1
        IN  /\ \A k \in 1 .. Len(games) - 1 : games[k].gameId > games[k + 1].gameId
            /\ \A k \in 1 .. Len(games) : games[k].creator # ZERO_ADDRESS
            /\ Len(games) <= 50
            /\ \A k \in 1 .. Len(games) :
                  IF ScannedFromOne
                  THEN games[k].gameId \in 1 .. 50
                  ELSE /\ games[k].gameId >= 1
                       /\ games[k].gameId <= latestGameId
                       /\ games[k].gameId > latestGameId - 50

\* the 50 games of a full window, listed from 52 down to 3
C28_Witness ==
    /\ BuiltFromReads
    /\ ~ScannedFromOne
    /\ Len(feedResult[1]) = 50
    /\ feedResult[1][1].gameId = 52
    /\ feedResult[1][50].gameId = 3


\* ------------------------------------------------------------------------
\* Properties of the reference deck
\* ------------------------------------------------------------------------

\* decodeHandCards has run on the clear words of the reference deck, with the
\* 8-bit encoding
DeckDecoded ==
    /\ call.op = "decodeHandCards"
    /\ handCards # <<>>
    /\ handArgs.hand0 = limb0
    /\ handArgs.hand1 = limb1
    /\ BitAnd(handArgs.deckMap, { 0, 1 }) = {}

\* the cards of a list whose index is below the length of the reference deck
InDeck(cards) == SelectSeq(cards, LAMBDA card : card.index < Len(WHOT_DECK))

\* C29: with the 8-bit encoding and the clear words packLimb builds from
\* WHOT_DECK (cards 0..31, then 32..53), decodeHandCards returns a card for
\* every set index below 54, its value is WHOT_DECK[i], and these cards are
\* the cards ownedCardsFromMap returns for the deck map.
C29_ReferenceDeck ==
    DeckDecoded =>
        LET cards == InDeck(handCards[1])
        IN  /\ { cards[k].index : k \in 1 .. Len(cards) }
                  = { i \in Shr(handArgs.deckMap, 2) : i < Len(WHOT_DECK) }
            /\ \A k \in 1 .. Len(cards) : cards[k].value = WHOT_DECK[cards[k].index + 1]
            /\ cards = ownedCardsFromMap(handArgs.deckMap, WHOT_DECK)

\* a hand holding the last card of the first word, the first of the second
\* and the last card of the deck
C29_Witness ==
    /\ DeckDecoded
    /\ { 31, 32, 53 } \subseteq Shr(handArgs.deckMap, 2)
    /\ \E k \in 1 .. Len(handCards[1]) :
          handCards[1][k].index = 53 /\ handCards[1][k].value = 180


\* ------------------------------------------------------------------------
\* Properties of the fields decodeHandCards reads
\* ------------------------------------------------------------------------

\* decodeHandCards has run
HandDecoded == call.op = "decodeHandCards" /\ handCards # <<>>

\* the indexes of the cards decodeHandCards returned
HandledIndexes == { handCards[1][k].index : k \in 1 .. Len(handCards[1]) }

\* the clear word (0 or 1) and the bit offset of the field of index i
FieldOf(i, cardsPerWord, cardBitSize) ==
    << IF i < cardsPerWord THEN 0 ELSE 1, (i % cardsPerWord) * cardBitSize >>

\* C30: every index i decodeHandCards handles is below 2 * cardsPerWord, its
\* field ends within the 256 bits of its clear word, and two distinct indexes
\* have distinct (word, offset) fields.
C30_Fields ==
    HandDecoded =>
        LET cardBitSize == decodeDeckMap(handArgs.deckMap).cardBitSize
            cardsPerWord == 256 \div cardBitSize
        IN  /\ \A i \in HandledIndexes :
                  /\ i < 2 * cardsPerWord
                  /\ (i % cardsPerWord) * cardBitSize + cardBitSize <= 256
            /\ \A i, j \in HandledIndexes :
                  i # j => FieldOf(i, cardsPerWord, cardBitSize)
                              # FieldOf(j, cardsPerWord, cardBitSize)

\* 5-bit cards: index 50 is the last field of the first word, 51 the first
\* of the second
C30_Witness ==
    /\ HandDecoded
    /\ decodeDeckMap(handArgs.deckMap).cardBitSize = 5
    /\ { 50, 51 } \subseteq HandledIndexes

====
